---------------------------- MODULE Spec2Model ----------------------------
(***************************************************************************)
(* Model of the MoIP manager's controller integration layer:               *)
(*   - the inventory store (app/database.py: devices, config_snapshots),   *)
(*   - the reconciliation pass and the snapshot engine (app/sync.py),      *)
(*   - the REST client's token cache (moip/api_client.py),                 *)
(*   - the line-protocol client (moip/client.py): _send_command, its        *)
(*     operations and the parsing of their responses,                      *)
(*   - the REST client's requests and video operations, alone and called   *)
(*     by several threads (moip/api_client.py),                            *)
(*   - the bulk video routes (app/routes/devices.py).                      *)
(*                                                                         *)
(* Values.  A Python/SQL value is an integer: NULL (-1) is None / SQL NULL;*)
(* 0 is the falsy non-null value of its type (the empty string for a text  *)
(* column, zero for an integer column); 1, 2, ... are distinct truthy      *)
(* values (non-empty strings, positive ids).                               *)
(***************************************************************************)
EXTENDS Integers, Sequences, FiniteSets, TLC

VARIABLES
    devices,      \* the devices table: rows in insertion order (row id = position)
    now,          \* the wall clock (CURRENT_TIMESTAMP, time.time()), in seconds
    supplied,     \* history: per group_id and column, the last non-null value passed to upsert_device
    lastCall,     \* the last operation that ran: its arguments, its pre-state and its result
    pass,         \* the reconciliation pass in progress: its position and what it has done
    snapshots,    \* the config_snapshots table: a set of rows
    snapSeq,      \* the largest id config_snapshots has ever issued (sqlite_sequence)
    ctl,          \* the controller: its routing table and its group names
    token,        \* MoIPAPIClient._token of one client
    token_expires, \* MoIPAPIClient._token_expires of that client
    line,         \* the line-protocol client: the operation in progress and its connection
    api,          \* the REST client's callers: their requests in progress
    app_settings, \* the app_settings table: the persisted value of each persisted key
    environ       \* os.environ after load_dotenv(): the value of each variable that is set

storeVars == <<snapshots, snapSeq, ctl>>
tokenVars == <<token, token_expires>>
clientVars == <<line, api>>
configVars == <<app_settings, environ>>
vars == <<devices, now, supplied, lastCall, pass, snapshots, snapSeq, ctl, token, token_expires, line, api, app_settings, environ>>

NULL == -1

\* A dict with no key: an empty app_settings table, an environment that sets
\* none of the variables read.
NoSettings == [k \in {} |-> <<>>]

\* Python truthiness of a value: None, 0 and "" are falsy.
Truthy(v) == v # NULL /\ v # 0

--------------------------------------------------------------------------
(* Bounds and input domains *)

MaxTime == 1               \* the clock runs over 0..MaxTime in the inventory specifications

DeviceTypes == {"tx", "rx"}
Subtypes == {"av", "audio", "videowall"}
Indexes == {1, 2}          \* protocol-visible slots
GroupIds == {1, 2}         \* REST group ids
Vals == {0, 1}             \* non-null column values: 0 is '' / 0, 1 is a truthy value
OptVals == Vals \cup {NULL}

\* The columns upsert_device merges with COALESCE.
CoalesceFields == {"name", "icon_type", "mac_address", "ip_address", "model", "firmware", "unit_id"}

NoCall == [op |-> "none"]

Receivers == {1, 2}        \* receiver numbers of the line protocol
Transmitters == {0, 1, 2}  \* transmitter numbers; 0 unassigns

\* The controller before the program has sent it anything: nothing routed, and
\* names the program has not set (NULL).
NameKeys == DeviceTypes \X GroupIds
InitCtl ==
    [routes |-> [n \in Receivers |-> 0],
     names |-> [k \in NameKeys |-> NULL]]

--------------------------------------------------------------------------
(* app/database.py: the devices table and upsert_device *)

\* SQL COALESCE(excluded.x, devices.x): the first non-NULL argument.
\* (CoalesceOverwrite is the variant without COALESCE: the new value always wins.)
CoalesceOverwrite(excluded, stored) == excluded
Coalesce(excluded, stored) == IF excluded # NULL THEN excluded ELSE stored

\* The row INSERT writes: id is the AUTOINCREMENT key, created_at takes its default.
InsertedRow(rowid, a, t) ==
    [id |-> rowid,
     device_type |-> a.device_type, device_index |-> a.device_index, subtype |-> a.subtype,
     name |-> a.name, icon_type |-> a.icon_type, mac_address |-> a.mac_address,
     ip_address |-> a.ip_address, model |-> a.model, firmware |-> a.firmware,
     unit_id |-> a.unit_id, group_id |-> a.group_id,
     last_seen |-> t, created_at |-> t, updated_at |-> t]

\* ON CONFLICT(group_id) DO UPDATE SET ...: id, group_id and created_at stay.
\* (KeepTypeOnConflict is the variant that leaves device_type, device_index and subtype.)
KeepTypeOnConflict(row, a, t) ==
    [row EXCEPT !.name = Coalesce(a.name, row.name),
                !.icon_type = Coalesce(a.icon_type, row.icon_type),
                !.mac_address = Coalesce(a.mac_address, row.mac_address),
                !.ip_address = Coalesce(a.ip_address, row.ip_address),
                !.model = Coalesce(a.model, row.model),
                !.firmware = Coalesce(a.firmware, row.firmware),
                !.unit_id = Coalesce(a.unit_id, row.unit_id),
                !.last_seen = t,
                !.updated_at = t]
UpdatedRow(row, a, t) ==
    [row EXCEPT !.device_type = a.device_type,
                !.device_index = a.device_index,
                !.subtype = a.subtype,
                !.name = Coalesce(a.name, row.name),
                !.icon_type = Coalesce(a.icon_type, row.icon_type),
                !.mac_address = Coalesce(a.mac_address, row.mac_address),
                !.ip_address = Coalesce(a.ip_address, row.ip_address),
                !.model = Coalesce(a.model, row.model),
                !.firmware = Coalesce(a.firmware, row.firmware),
                !.unit_id = Coalesce(a.unit_id, row.unit_id),
                !.last_seen = t,
                !.updated_at = t]

\* The positions of the rows that conflict on the UNIQUE group_id (NULL never conflicts).
ConflictRows(devs, gid) ==
    {i \in 1..Len(devs) : gid # NULL /\ devs[i].group_id = gid}

\* upsert_device(...): the table after the statement has been committed at time t.
UpsertDevice(devs, a, t) ==
    IF ConflictRows(devs, a.group_id) # {}
    THEN LET i == CHOOSE j \in ConflictRows(devs, a.group_id) : TRUE
         IN  [devs EXCEPT ![i] = UpdatedRow(devs[i], a, t)]
    ELSE Append(devs, InsertedRow(Len(devs) + 1, a, t))

\* The row stored for a group id, as a set (empty when there is none).
RowsOf(devs, gid) == {devs[i] : i \in ConflictRows(devs, gid)}

--------------------------------------------------------------------------
(* Calls of upsert_device *)

\* The columns one call passes non-null, after the callers of the repository: none,
\* the icon alone, the name (with or without the unit), the unit's hardware
\* columns, or every column.
HardwareFields == {"mac_address", "ip_address", "model", "firmware"}
Shapes ==
    {{}, {"icon_type"}, {"name"}, {"unit_id"}, {"name", "unit_id"}, HardwareFields,
     CoalesceFields}

\* The optional arguments of a call that passes v for the columns of shape.
OptArgs(shape, v) ==
    [name |-> IF "name" \in shape THEN v ELSE NULL,
     icon_type |-> IF "icon_type" \in shape THEN v ELSE NULL,
     mac_address |-> IF "mac_address" \in shape THEN v ELSE NULL,
     ip_address |-> IF "ip_address" \in shape THEN v ELSE NULL,
     model |-> IF "model" \in shape THEN v ELSE NULL,
     firmware |-> IF "firmware" \in shape THEN v ELSE NULL,
     unit_id |-> IF "unit_id" \in shape THEN v ELSE NULL]

AllNull == OptArgs({}, NULL)

UpsertArgs(dtype, idx, gid, subtype, opt) ==
    [device_type |-> dtype, device_index |-> idx, subtype |-> subtype,
     name |-> opt.name, icon_type |-> opt.icon_type, mac_address |-> opt.mac_address,
     ip_address |-> opt.ip_address, model |-> opt.model, firmware |-> opt.firmware,
     unit_id |-> opt.unit_id, group_id |-> gid]

\* The history of non-null values passed for a group id.
Supplied(sup, a) ==
    [sup EXCEPT ![a.group_id] =
        [f \in CoalesceFields |-> IF a[f] # NULL THEN a[f] ELSE sup[a.group_id][f]]]

\* One call db.upsert_device(...) by some caller.
UpsertCall(a) ==
    /\ devices' = UpsertDevice(devices, a, now)
    /\ supplied' = Supplied(supplied, a)
    /\ lastCall' = [op |-> "upsert", args |-> a, at |-> now,
                    existed |-> ConflictRows(devices, a.group_id) # {}]
    /\ UNCHANGED <<now, pass, storeVars, tokenVars, clientVars, configVars>>

\* The clock advances.
Tick ==
    /\ now < MaxTime
    /\ now' = now + 1
    /\ UNCHANGED <<devices, supplied, lastCall, pass, storeVars, tokenVars, clientVars, configVars>>

\* The state after init_db() on a new database file, and a new API client.
InitInventory ==
    /\ devices = <<>>
    /\ now = 0
    /\ supplied = [g \in GroupIds |-> AllNull]
    /\ lastCall = NoCall
    /\ pass = [pc |-> "idle"]
    /\ snapshots = {}
    /\ snapSeq = 0
    /\ ctl = InitCtl
    /\ token = NULL
    /\ token_expires = 0
    /\ line = NoCall
    /\ api = NoCall
    /\ app_settings = NoSettings
    /\ environ = NoSettings

\* Sequences of upsert_device calls on one group id.
UpsertGroupIds == {1}

NextUpsert ==
    \/ Tick
    \/ \E dtype \in DeviceTypes, idx \in Indexes, gid \in UpsertGroupIds,
          subtype \in Subtypes, shape \in Shapes, v \in Vals :
          UpsertCall(UpsertArgs(dtype, idx, gid, subtype, OptArgs(shape, v)))

SpecUpsert == InitInventory /\ [][NextUpsert]_vars

--------------------------------------------------------------------------
(* C1: merge-preserve-on-null *)

\* C1: after every upsert_device call on a group id, each of name, icon_type,
\* mac_address, ip_address, model, firmware and unit_id of the stored row equals
\* the most recent non-null value passed for it (NULL only if none ever was): a
\* null argument never replaces a stored non-null value.
C1_MergePreservesNonNull ==
    \A g \in GroupIds : \A r \in RowsOf(devices, g) :
        \A f \in CoalesceFields : r[f] = supplied[g][f]

\* A call that passed NULL for a column whose stored value is non-null.
C1_Witness ==
    /\ lastCall.op = "upsert"
    /\ lastCall.existed
    /\ lastCall.args.name = NULL
    /\ \E r \in RowsOf(devices, lastCall.args.group_id) : r.name # NULL

--------------------------------------------------------------------------
(* C9: the overwritten columns *)

\* C9: after every upsert_device call on an existing group id, the stored
\* device_type, device_index and subtype are the ones passed in that call, and
\* last_seen and updated_at are the time of the call.
C9_OverwritesTypeIndexSubtype ==
    (lastCall.op = "upsert" /\ lastCall.existed) =>
        \A r \in RowsOf(devices, lastCall.args.group_id) :
            /\ r.device_type = lastCall.args.device_type
            /\ r.device_index = lastCall.args.device_index
            /\ r.subtype = lastCall.args.subtype
            /\ r.last_seen = lastCall.at
            /\ r.updated_at = lastCall.at

\* A later call changed the type, the index and the subtype of a stored row.
C9_Witness ==
    /\ lastCall.op = "upsert"
    /\ lastCall.existed
    /\ lastCall.at > 0
    /\ \E r \in RowsOf(devices, lastCall.args.group_id) :
          /\ r.created_at < r.updated_at
          /\ r.device_type = "rx"
          /\ r.device_index = 2
          /\ r.subtype = "audio"

--------------------------------------------------------------------------
(* Strings whose content the code inspects, as sequences of characters *)

UpperCase == <<"A", "B", "C", "D", "E", "F", "G", "H", "I", "J", "K", "L", "M",
               "N", "O", "P", "Q", "R", "S", "T", "U", "V", "W", "X", "Y", "Z">>
LowerCase == <<"a", "b", "c", "d", "e", "f", "g", "h", "i", "j", "k", "l", "m",
               "n", "o", "p", "q", "r", "s", "t", "u", "v", "w", "x", "y", "z">>

\* str.lower()
LowerChar(c) ==
    IF \E i \in 1..26 : UpperCase[i] = c
    THEN LowerCase[CHOOSE i \in 1..26 : UpperCase[i] = c]
    ELSE c
Lower(str) == [i \in 1..Len(str) |-> LowerChar(str[i])]

\* sub in str
Contains(str, sub) ==
    \E i \in 0..(Len(str) - Len(sub)) : SubSeq(str, i + 1, i + Len(sub)) = sub

\* The settings.type strings of the group records (0 is the absent key, which
\* group.get(..).get('type', '') reads as '').
TypeText(v) ==
    CASE v = 1 -> <<"a", "v">>
      [] v = 2 -> <<"a", "u", "d", "i", "o">>
      [] v = 3 -> <<"V", "i", "d", "e", "o", " ", "W", "a", "l", "l">>
      [] OTHER -> <<>>

\* The status.model strings of the units: B-900-MOIP-4K-RX and B-900-MOIP-A-RX.
ModelText(v) ==
    CASE v = 1 -> <<"B", "-", "9", "0", "0", "-", "M", "O", "I", "P", "-", "4", "K", "-", "R", "X">>
      [] v = 2 -> <<"B", "-", "9", "0", "0", "-", "M", "O", "I", "P", "-", "A", "-", "R", "X">>
      [] OTHER -> <<>>

--------------------------------------------------------------------------
(* app/sync.py: determine_subtype and sync_devices *)

\* A group record as get_group_tx / get_group_rx returns it: id, settings.name,
\* settings.index, settings.type and associations.unit.  kind "null" is a record
\* whose settings member is JSON null: group.get('settings', {}) is then None and
\* the .get on it raises.  A NULL id, index, name or unit is an absent key.
Group1 == [id |-> 1, name |-> 1, kind |-> "obj", index |-> 1, type |-> 0, unit |-> 1]
Group2 == [id |-> 2, name |-> NULL, kind |-> "obj", index |-> 2, type |-> 2, unit |-> NULL]
GroupNoIndex == [id |-> 1, name |-> 1, kind |-> "obj", index |-> NULL, type |-> 0, unit |-> 1]
GroupNoId == [id |-> NULL, name |-> 1, kind |-> "obj", index |-> 1, type |-> 0, unit |-> 1]
GroupMalformed == [id |-> 2, name |-> NULL, kind |-> "null", index |-> NULL, type |-> 0, unit |-> NULL]
GroupRecs == {Group1, Group2, GroupNoIndex, GroupNoId, GroupMalformed}

\* A unit record: its id and the members of its status.
Unit1 == [id |-> 1, model |-> 2, firmware |-> 1, mac |-> 1, ip |-> 1]

\* The body of determine_subtype on the text of settings.type ('' when the key
\* is absent) and the text of the model ('' for None: "if model:" is false for
\* both).  (SubtypeModelFirst is the variant that looks at the model before the
\* type.)
SubtypeModelFirst(group_type, model_lower) ==
    IF Contains(model_lower, <<"-", "a", "-", "r", "x">>)
         \/ Contains(model_lower, <<"-", "a", "-", "t", "x">>) THEN "audio"
    ELSE IF Contains(model_lower, <<"w", "a", "l", "l">>) THEN "videowall"
    ELSE IF Contains(group_type, <<"v", "i", "d", "e", "o">>)
             /\ Contains(group_type, <<"w", "a", "l", "l">>) THEN "videowall"
    ELSE IF group_type = <<"a", "u", "d", "i", "o">> THEN "audio"
    ELSE "av"
SubtypeOf(group_type, model_lower) ==
    IF Contains(group_type, <<"v", "i", "d", "e", "o">>)
         /\ Contains(group_type, <<"w", "a", "l", "l">>) THEN "videowall"
    ELSE IF group_type = <<"a", "u", "d", "i", "o">> THEN "audio"
    ELSE IF group_type = <<"a", "v">> THEN "av"
    ELSE IF model_lower # <<>> /\ (Contains(model_lower, <<"-", "a", "-", "r", "x">>)
                                   \/ Contains(model_lower, <<"-", "a", "-", "t", "x">>))
         THEN "audio"
    ELSE IF model_lower # <<>> /\ Contains(model_lower, <<"w", "a", "l", "l">>) THEN "videowall"
    ELSE "av"

\* determine_subtype(group, model): the settings.type field first, then the model.
determine_subtype(group, model) ==
    SubtypeOf(Lower(TypeText(group.type)),
              IF Truthy(model) THEN Lower(ModelText(model)) ELSE <<>>)

\* determine_subtype over the type and model strings of the model, tabulated.
TypeCodes == {0, 1, 2, 3}
ModelCodes == {NULL, 0, 1, 2}
SubtypeTable ==
    [ty \in TypeCodes |-> [m \in ModelCodes |-> determine_subtype([type |-> ty], m)]]

\* unit_by_id = {u.get('id'): u for u in units}: a later unit replaces an earlier one.
UnitIdsOf(units) == {units[i].id : i \in 1..Len(units)}
unit_by_id(units) ==
    [u \in UnitIdsOf(units) |->
        units[CHOOSE i \in 1..Len(units) :
                 /\ units[i].id = u
                 /\ \A j \in (i + 1)..Len(units) : units[j].id # u]]

\* Whether processing the group raises (sync.py line 73 / 108).
GroupRaises(group) == group.kind = "null"

\* Whether the loop body skips the group (the continue of line 76 / 111).
GroupSkipped(group) == group.index = NULL \/ group.id = NULL

\* The arguments of the upsert_device call the loop body makes for a group.
GroupUpsertArgs(dtype, group, units) ==
    LET unit_id == group.unit
        found == Truthy(unit_id) /\ unit_id \in UnitIdsOf(units)
        unit == unit_by_id(units)[unit_id]
        mac == IF found THEN unit.mac ELSE NULL
        ip == IF found THEN unit.ip ELSE NULL
        model == IF found THEN unit.model ELSE NULL
        firmware == IF found THEN unit.firmware ELSE NULL
    IN  [device_type |-> dtype, device_index |-> group.index,
         subtype |-> SubtypeTable[group.type][model],
         name |-> group.name, icon_type |-> NULL, mac_address |-> mac,
         ip_address |-> ip, model |-> model, firmware |-> firmware,
         unit_id |-> unit_id, group_id |-> group.id]

--------------------------------------------------------------------------
(* Reconciliation passes: sync_devices(), one step at a time *)

MaxGroups == 2             \* the group records one list call returns, per kind

UnitLists == {<<>>, <<Unit1>>}

NoPass == [pc |-> "idle"]

\* What sync_devices returns when a step raises: the except clause logs and returns False.
\* (SyncFailurePropagates is the variant without the except clause.)
SyncFailurePropagates == [ret |-> FALSE, raised |-> TRUE]
SyncFailure == [ret |-> FALSE, raised |-> FALSE]
SyncSuccess == [ret |-> TRUE, raised |-> FALSE]

\* The record of a finished pass.
SyncDone(res, has_failed, info) ==
    [op |-> "sync", at |-> now, ret |-> res.ret, raised |-> res.raised, failed |-> has_failed,
     since |-> info.since, was_empty |-> info.was_empty, expected |-> info.expected,
     reached |-> info.reached, before |-> info.before]

\* Lines 50-69: the settings, the device counts and the three detailed lists are
\* read; reads_ok is whether all of these calls return.  Nothing is written yet.
SyncBegin(reads_ok, units) ==
    /\ pass.pc = "idle"
    /\ LET info == [pc |-> "tx", since |-> now, was_empty |-> (devices = <<>>),
                    expected |-> {}, reached |-> {}, before |-> Len(devices),
                    unit_list |-> units, count |-> 0]
       IN  IF reads_ok
           THEN /\ pass' = info
                /\ UNCHANGED lastCall
           ELSE /\ pass' = NoPass
                /\ lastCall' = SyncDone(SyncFailure, TRUE, info)
    /\ UNCHANGED <<devices, now, supplied, storeVars, tokenVars, clientVars, configVars>>

\* Lines 72-103 and 107-139: the body of the loop of the current kind, for the
\* next group record of the fetched list.
SyncGroup(group) ==
    /\ pass.pc \in {"tx", "rx"}
    /\ pass.count < MaxGroups
    /\ IF GroupRaises(group)
       THEN /\ pass' = NoPass
            /\ lastCall' = SyncDone(SyncFailure, TRUE, pass)
            /\ UNCHANGED devices
       ELSE IF GroupSkipped(group)
       THEN /\ pass' = [pass EXCEPT !.count = @ + 1]
            /\ UNCHANGED <<devices, lastCall>>
       ELSE /\ devices' = UpsertDevice(devices, GroupUpsertArgs(pass.pc, group, pass.unit_list), now)
            /\ pass' = [pass EXCEPT !.count = @ + 1,
                                    !.expected = @ \cup {<<pass.pc, group.index, group.id>>},
                                    !.reached = @ \cup {group.id}]
            /\ UNCHANGED lastCall
    /\ UNCHANGED <<now, supplied, storeVars, tokenVars, clientVars, configVars>>

\* The end of a loop: the receivers follow the transmitters, and after the
\* receivers the pass returns True (lines 141-142).
SyncLoopEnd ==
    /\ pass.pc \in {"tx", "rx"}
    /\ IF pass.pc = "tx"
       THEN /\ pass' = [pass EXCEPT !.pc = "rx", !.count = 0]
            /\ UNCHANGED lastCall
       ELSE /\ pass' = NoPass
            /\ lastCall' = SyncDone(SyncSuccess, FALSE, pass)
    /\ UNCHANGED <<devices, now, supplied, storeVars, tokenVars, clientVars, configVars>>

NextInv ==
    \/ Tick
    \/ \E reads_ok \in BOOLEAN, units \in UnitLists : SyncBegin(reads_ok, units)
    \/ \E group \in GroupRecs : SyncGroup(group)
    \/ SyncLoopEnd

SpecInv == InitInventory /\ [][NextInv]_vars

--------------------------------------------------------------------------
(* C5: one record per reconcilable group *)

RowsMatching(e) ==
    {i \in 1..Len(devices) :
        /\ devices[i].device_type = e[1]
        /\ devices[i].device_index = e[2]
        /\ devices[i].group_id = e[3]}

\* C5: after a pass that returns true on an empty inventory, the inventory holds
\* exactly one record for each fetched group record, transmitter or receiver,
\* that carries both an index and an id, with that group's type and index, and no
\* other record -- also when a transmitter group and a receiver group carry the
\* same id.
C5_OneRecordPerGroup ==
    (pass.pc = "idle" /\ lastCall.op = "sync" /\ lastCall.ret /\ lastCall.was_empty) =>
        /\ \A e \in lastCall.expected : Cardinality(RowsMatching(e)) = 1
        /\ Len(devices) = Cardinality(lastCall.expected)

--------------------------------------------------------------------------
(* C10: a pass never raises and never rolls back *)

\* C10: sync_devices returns instead of raising; it returns true exactly when no
\* step failed; and whatever it returns, no row that was stored before the pass
\* is gone and every group it upserted before a failure has its row, touched
\* during the pass.
C10_SyncNeverRaisesNoRollback ==
    (pass.pc = "idle" /\ lastCall.op = "sync") =>
        /\ ~lastCall.raised
        /\ lastCall.ret = ~lastCall.failed
        /\ Len(devices) >= lastCall.before
        /\ \A g \in lastCall.reached :
              \E r \in RowsOf(devices, g) :
                  lastCall.since <= r.last_seen /\ r.last_seen <= lastCall.at

\* A pass that failed after it had upserted a record.
C10_Witness ==
    /\ pass.pc = "idle"
    /\ lastCall.op = "sync"
    /\ ~lastCall.ret
    /\ lastCall.reached # {}
    /\ lastCall.before = 0
    /\ Len(devices) > 0

--------------------------------------------------------------------------
(* moip/client.py, moip/api_client.py: the commands restore sends *)

SwitchOutcomes == {"ok", "no_ok", "raise"}   \* answered OK; answered without OK; no connection
NameOutcomes == {"ok", "raise"}              \* 2xx; login or HTTP error

\* What "!Switch=tx,rx" does to the controller's routing table when it is
\* accepted: the receiver is switched to the transmitter (0 unassigns it).
\* (SwitchToggles is the variant in which a repeated command unassigns the receiver.)
SwitchToggles(rt, t, r) == [rt EXCEPT ![r] = IF @ = t THEN 0 ELSE t]
ControllerSwitch(rt, t, r) == [rt EXCEPT ![r] = t]

\* MoIPClient.switch: _send_command raises when the controller cannot be
\* reached; otherwise the result is whether the answer contains "OK".
switch(rt, t, r, outcome) ==
    [table |-> IF outcome = "ok" THEN ControllerSwitch(rt, t, r) ELSE rt,
     raises |-> (outcome = "raise"),
     value |-> (outcome = "ok")]

\* set_group_tx_name / set_group_rx_name: PUT {"settings": {"name": name}} on the
\* group of that kind; _request raises on a failed login or an error status.
set_group_name(group_names, endpoint, gid, new_name, outcome) ==
    [table |-> IF outcome = "ok" /\ <<endpoint, gid>> \in DOMAIN group_names
               THEN [group_names EXCEPT ![<<endpoint, gid>>] = new_name]
               ELSE group_names,
     raises |-> (outcome = "raise")]

--------------------------------------------------------------------------
(* app/database.py: config_snapshots; json.dumps / json.loads *)

DeviceColumns ==
    {"id", "device_type", "device_index", "subtype", "name", "icon_type", "mac_address",
     "ip_address", "model", "firmware", "unit_id", "group_id", "last_seen", "created_at",
     "updated_at"}

\* JSON text of a scalar: null for None, the literal otherwise.
JsonScalar(v) == IF v = NULL THEN <<"null">> ELSE <<"lit", v>>
PyScalar(j) == IF j[1] = "null" THEN NULL ELSE j[2]

\* The columns whose values are the strings 'tx', 'rx', 'av', ...: never None.
StringColumns == {"device_type", "subtype"}
JsonColumn(c, v) == IF c \in StringColumns THEN <<"lit", v>> ELSE JsonScalar(v)

\* json.dumps(snapshot_data) and json.loads of the stored text.
json_dumps(data) ==
    [timestamp |-> JsonScalar(data.timestamp),
     controller_ip |-> JsonScalar(data.controller_ip),
     routing |-> [k \in 1..Len(data.routing) |->
                     [tx |-> JsonScalar(data.routing[k].tx), rx |-> JsonScalar(data.routing[k].rx)]],
     device_rows |-> [k \in 1..Len(data.device_rows) |->
                     [c \in DeviceColumns |-> JsonColumn(c, data.device_rows[k][c])]]]

json_loads(text) ==
    [timestamp |-> PyScalar(text.timestamp),
     controller_ip |-> PyScalar(text.controller_ip),
     routing |-> [k \in 1..Len(text.routing) |->
                     [tx |-> PyScalar(text.routing[k].tx), rx |-> PyScalar(text.routing[k].rx)]],
     device_rows |-> [k \in 1..Len(text.device_rows) |->
                     [c \in DeviceColumns |-> PyScalar(text.device_rows[k][c])]]]

\* ORDER BY device_type, device_index: 'rx' sorts before 'tx'.
TypeRank(dtype) == IF dtype = "rx" THEN 0 ELSE 1
OrderedBefore(a, b) ==
    \/ TypeRank(a.device_type) < TypeRank(b.device_type)
    \/ a.device_type = b.device_type /\ a.device_index < b.device_index

\* get_all_devices(): the rows in an order the ORDER BY admits (rows with equal
\* type and index come in either order).
get_all_devices(devs) ==
    LET n == Len(devs)
        perms == {p \in [1..n -> 1..n] :
                    /\ \A i, j \in 1..n : i # j => p[i] # p[j]
                    /\ \A i \in 1..n, j \in 1..n : i < j => ~OrderedBefore(devs[p[j]], devs[p[i]])}
    IN  {[k \in 1..n |-> devs[p[k]]] : p \in perms}

\* A row of config_snapshots.
SnapshotRow(rowid, snap_name, descr, text, t) ==
    [id |-> rowid, name |-> snap_name, created_at |-> t, description |-> descr,
     snapshot_data |-> text]

\* save_snapshot: INSERT with the next AUTOINCREMENT id, which is larger than
\* every id the table has ever issued.
\* (SaveReplacesByName is the variant that overwrites a stored snapshot of the same name.)
SaveReplacesByName(snaps, seq, snap_name, data, descr, t) ==
    IF \E r \in snaps : r.name = snap_name
    THEN {IF r.name = snap_name THEN [r EXCEPT !.snapshot_data = json_dumps(data)] ELSE r : r \in snaps}
    ELSE snaps \cup {SnapshotRow(seq + 1, snap_name, descr, json_dumps(data), t)}
save_snapshot(snaps, seq, snap_name, data, descr, t) ==
    snaps \cup {SnapshotRow(seq + 1, snap_name, descr, json_dumps(data), t)}

\* get_latest_snapshot: the row created last.
get_latest_snapshot(snaps) ==
    {[r EXCEPT !.snapshot_data = json_loads(@)] :
        r \in {q \in snaps : \A o \in snaps : o.id <= q.id}}

\* get_snapshot: the row with that id, its snapshot_data parsed; no row gives None
\* (here: the empty set).
\* (GetSnapshotOrLatest is the variant that falls back to the latest snapshot.)
GetSnapshotOrLatest(snaps, snapshot_id) ==
    IF \E q \in snaps : q.id = snapshot_id
    THEN {[r EXCEPT !.snapshot_data = json_loads(@)] : r \in {q \in snaps : q.id = snapshot_id}}
    ELSE get_latest_snapshot(snaps)
get_snapshot(snaps, snapshot_id) ==
    {[r EXCEPT !.snapshot_data = json_loads(@)] : r \in {q \in snaps : q.id = snapshot_id}}

\* delete_snapshot: DELETE ... WHERE id = ?
delete_snapshot(snaps, snapshot_id) == {r \in snaps : r.id # snapshot_id}

--------------------------------------------------------------------------
(* app/sync.py: create_config_snapshot and restore_config_snapshot *)

\* results = {'routing_restored': 0, 'names_restored': 0, 'errors': []}, with the
\* controller and the calls made so far.  errors is route_errors followed by
\* name_errors.
RestoreStart(c) ==
    [raised |-> FALSE, controller |-> c, routing_restored |-> 0, names_restored |-> 0,
     route_errors |-> <<>>, name_errors |-> <<>>, switch_calls |-> <<>>, name_calls |-> <<>>]

\* The routing loop (lines 207-214) from entry k on: the value switch returns is
\* not looked at; only an exception adds an error.
RECURSIVE RestoreRouting(_, _, _, _)
RestoreRouting(res, routing, outcomes, k) ==
    IF k > Len(routing) THEN res
    ELSE LET route == routing[k]
             sw == switch(res.controller.routes, route.tx, route.rx, outcomes[k])
             called == [res EXCEPT !.controller.routes = sw.table,
                                   !.switch_calls = Append(@, <<route.tx, route.rx>>)]
         IN  RestoreRouting(
                 IF sw.raises
                 THEN [called EXCEPT !.route_errors = Append(@, <<route.tx, route.rx>>)]
                 ELSE [called EXCEPT !.routing_restored = @ + 1],
                 routing, outcomes, k + 1)

\* The endpoint of a device record's name-set: PUT /moip/group_tx/{id} when
\* device_type is 'tx', PUT /moip/group_rx/{id} otherwise.
\* (NameEndpointRx is the variant that always uses the receiver-group endpoint.)
NameEndpointRx(dtype) == "rx"
NameEndpoint(dtype) == IF dtype = "tx" THEN "tx" ELSE "rx"

\* The names loop (lines 217-228) from device record k on.
RECURSIVE RestoreNames(_, _, _, _)
RestoreNames(res, rows, outcomes, k) ==
    IF k > Len(rows) THEN res
    ELSE LET device == rows[k]
         IN  IF ~Truthy(device.name) \/ ~Truthy(device.group_id)
             THEN RestoreNames(res, rows, outcomes, k + 1)
             ELSE LET endpoint == NameEndpoint(device.device_type)
                      put == set_group_name(res.controller.names, endpoint,
                                            device.group_id, device.name, outcomes[k])
                      called == [res EXCEPT
                                    !.controller.names = put.table,
                                    !.name_calls = Append(@, <<endpoint, device.group_id, device.name>>)]
                  IN  RestoreNames(
                          IF put.raises
                          THEN [called EXCEPT !.name_errors =
                                    Append(@, <<device.device_type, device.device_index>>)]
                          ELSE [called EXCEPT !.names_restored = @ + 1],
                          rows, outcomes, k + 1)

\* restore_config_snapshot: ValueError when the snapshot is not stored, before
\* any client exists; otherwise the two loops, each under its flag.
restore_config_snapshot(snaps, c, snapshot_id, restore_routing, restore_names, switch_outcomes, name_outcomes) ==
    LET snapshot == get_snapshot(snaps, snapshot_id)
    IN  IF snapshot = {}
        THEN [RestoreStart(c) EXCEPT !.raised = TRUE]
        ELSE LET data == (CHOOSE r \in snapshot : TRUE).snapshot_data
                 routed == IF restore_routing
                           THEN RestoreRouting(RestoreStart(c), data.routing, switch_outcomes, 1)
                           ELSE RestoreStart(c)
             IN  IF restore_names
                 THEN RestoreNames(routed, data.device_rows, name_outcomes, 1)
                 ELSE routed

--------------------------------------------------------------------------
(* Snapshot operations as calls *)

SnapshotIds == {1, 2}      \* the snapshot ids of requests
SnapshotNames == {1}
ControllerHost == 1        \* settings["host"]

Route(t, r) == [tx |-> t, rx |-> r]

\* What get_routing parses from the controller's answer to "?Receivers": no
\* entry, one entry per receiver, and answers that name a receiver twice.
RoutingAnswers ==
    {<<>>,
     <<Route(1, 1), Route(2, 2)>>,
     <<Route(1, 1), Route(2, 1)>>,
     <<Route(1, 1), Route(0, 2), Route(2, 1)>>}

\* create_config_snapshot(name, description): the routing is read first;
\* when the controller cannot be reached get_routing raises and nothing is saved.
CreateSnapshotCall(snap_name, descr, reachable, answer) ==
    /\ pass.pc = "idle"
    /\ IF ~reachable
       THEN /\ lastCall' = [op |-> "create", id |-> NULL, raised |-> TRUE]
            /\ UNCHANGED <<snapshots, snapSeq>>
       ELSE \E rows \in get_all_devices(devices) :
               LET data == [timestamp |-> now, controller_ip |-> ControllerHost,
                            routing |-> answer, device_rows |-> rows]
               IN  /\ snapshots' = save_snapshot(snapshots, snapSeq, snap_name, data, descr, now)
                   /\ snapSeq' = snapSeq + 1
                   /\ lastCall' = [op |-> "create", id |-> snapSeq + 1, raised |-> FALSE]
    /\ UNCHANGED <<devices, now, supplied, pass, ctl, tokenVars, clientVars, configVars>>

\* Every command of the call was answered with success.
AllOk(outcomes) == \A k \in DOMAIN outcomes : outcomes[k] = "ok"

\* restore_config_snapshot(snapshot_id, restore_routing, restore_names), with
\* the controller's reaction to each command chosen by the environment among
\* the given outcomes.
RestoreCall(snapshot_id, restore_routing, restore_names, switch_reactions, name_reactions) ==
    /\ pass.pc = "idle"
    /\ LET stored == {r \in snapshots : r.id = snapshot_id}
           data == IF stored = {}
                   THEN [routing |-> <<>>, device_rows |-> <<>>]
                   ELSE json_loads((CHOOSE r \in stored : TRUE).snapshot_data)
           switched == IF restore_routing THEN 1..Len(data.routing) ELSE {}
           named == IF restore_names
                    THEN {k \in 1..Len(data.device_rows) :
                            Truthy(data.device_rows[k].name) /\ Truthy(data.device_rows[k].group_id)}
                    ELSE {}
       IN  \E switch_outcomes \in [switched -> switch_reactions],
              name_outcomes \in [named -> name_reactions] :
              LET res == restore_config_snapshot(snapshots, ctl, snapshot_id, restore_routing,
                                                 restore_names, switch_outcomes, name_outcomes)
              IN  /\ ctl' = res.controller
                  /\ lastCall' =
                        [op |-> "restore", id |-> snapshot_id, raised |-> res.raised,
                         routing |-> data.routing, device_rows |-> data.device_rows,
                         routing_restored |-> res.routing_restored,
                         names_restored |-> res.names_restored,
                         route_errors |-> res.route_errors, name_errors |-> res.name_errors,
                         switch_calls |-> res.switch_calls, name_calls |-> res.name_calls,
                         missing |-> (stored = {}),
                         with_routing |-> restore_routing, with_names |-> restore_names,
                         switch_out |-> switch_outcomes, name_out |-> name_outcomes,
                         ctl_before |-> ctl]
    /\ UNCHANGED <<devices, now, supplied, pass, snapshots, snapSeq, tokenVars, clientVars, configVars>>

\* The DELETE route: db.delete_snapshot(snapshot_id).
DeleteSnapshotCall(snapshot_id) ==
    /\ pass.pc = "idle"
    /\ snapshots' = delete_snapshot(snapshots, snapshot_id)
    /\ lastCall' = [op |-> "delete", id |-> snapshot_id,
                    ret |-> (\E r \in snapshots : r.id = snapshot_id)]
    /\ UNCHANGED <<devices, now, supplied, pass, snapSeq, ctl, tokenVars, clientVars, configVars>>

--------------------------------------------------------------------------
(* Restoring snapshots of a fixed inventory *)

\* Inventories as upsert_device calls build them: both groups named; an empty
\* name next to a name; no name next to a name.
NamedRow(dtype, idx, gid, v) == UpsertArgs(dtype, idx, gid, "av", OptArgs({"name"}, v))
InventoryCalls ==
    {<<NamedRow("rx", 1, 1, 1), NamedRow("tx", 1, 2, 2)>>,
     <<NamedRow("rx", 2, 1, 0), NamedRow("tx", 1, 2, 1)>>,
     <<NamedRow("tx", 1, 1, NULL), NamedRow("rx", 1, 2, 2)>>}

RECURSIVE ReplayRows(_, _)
ReplayRows(calls, k) ==
    IF k = 0 THEN <<>> ELSE UpsertDevice(ReplayRows(calls, k - 1), calls[k], 0)

RECURSIVE ReplaySupplied(_, _)
ReplaySupplied(calls, k) ==
    IF k = 0 THEN [g \in GroupIds |-> AllNull]
    ELSE Supplied(ReplaySupplied(calls, k - 1), calls[k])

InitRestore ==
    /\ \E calls \in InventoryCalls :
          /\ devices = ReplayRows(calls, Len(calls))
          /\ supplied = ReplaySupplied(calls, Len(calls))
    /\ now = 0
    /\ lastCall = NoCall
    /\ pass = NoPass
    /\ snapshots = {}
    /\ snapSeq = 0
    /\ ctl = InitCtl
    /\ token = NULL
    /\ token_expires = 0
    /\ line = NoCall
    /\ api = NoCall
    /\ app_settings = NoSettings
    /\ environ = NoSettings

\* The result of the last call has been looked at; the next request can come.
Observed ==
    /\ lastCall # NoCall
    /\ lastCall' = NoCall
    /\ UNCHANGED <<devices, now, supplied, pass, storeVars, tokenVars, clientVars, configVars>>

\* Snapshots of the inventory are taken, restored and deleted.
NextRestore ==
    \/ Observed
    \/ /\ lastCall = NoCall
       /\ snapSeq + 1 \in SnapshotIds
       /\ \E snap_name \in SnapshotNames, reachable \in BOOLEAN, answer \in RoutingAnswers :
             CreateSnapshotCall(snap_name, NULL, reachable, answer)
    \/ /\ lastCall = NoCall
       /\ \E snapshot_id \in SnapshotIds, restore_routing \in BOOLEAN, restore_names \in BOOLEAN :
             RestoreCall(snapshot_id, restore_routing, restore_names,
                         SwitchOutcomes, NameOutcomes)
    \/ /\ lastCall = NoCall
       /\ \E snapshot_id \in SnapshotIds : DeleteSnapshotCall(snapshot_id)

SpecRestore == InitRestore /\ [][NextRestore]_vars

--------------------------------------------------------------------------
(* C2: a failing switch is an error *)

\* C2: a restore with restore_routing calls switch for every routing entry of
\* the snapshot, in order; routing_restored is the number of entries whose
\* switch succeeded; every entry whose switch failed -- it raised, or the
\* controller answered without OK -- has one error naming its pair; and the
\* call returns.
C2_FailedSwitchIsAnError ==
    (lastCall.op = "restore" /\ ~lastCall.missing /\ lastCall.with_routing) =>
        LET routing == lastCall.routing
            failing == {k \in 1..Len(routing) : lastCall.switch_out[k] # "ok"}
        IN  /\ ~lastCall.raised
            /\ lastCall.switch_calls =
                  [k \in 1..Len(routing) |-> <<routing[k].tx, routing[k].rx>>]
            /\ lastCall.routing_restored = Len(routing) - Cardinality(failing)
            /\ Len(lastCall.route_errors) = Cardinality(failing)
            /\ \A k \in failing :
                  \E i \in 1..Len(lastCall.route_errors) :
                      lastCall.route_errors[i] = <<routing[k].tx, routing[k].rx>>

--------------------------------------------------------------------------
(* C4: restoring twice is restoring once *)

\* C4: whatever state the controller is in and whichever snapshot is stored,
\* restoring the snapshot a second time with the same flags, every command
\* succeeding, leaves the controller's routing table and group names as the
\* first restore left them.
C4_RestoreTwiceIsRestoreOnce ==
    \A r \in snapshots : \A restore_routing \in BOOLEAN, restore_names \in BOOLEAN :
        LET data == json_loads(r.snapshot_data)
            all_switched == [k \in 1..Len(data.routing) |-> "ok"]
            all_named == [k \in 1..Len(data.device_rows) |-> "ok"]
            once == restore_config_snapshot(snapshots, ctl, r.id, restore_routing,
                                            restore_names, all_switched, all_named)
            twice == restore_config_snapshot(snapshots, once.controller, r.id, restore_routing,
                                             restore_names, all_switched, all_named)
        IN  twice.controller = once.controller

\* A restore of a snapshot whose routing names a receiver twice has run, every
\* command succeeding, on the controller as an earlier restore left it, and
\* has left it the same.
C4_Witness ==
    /\ lastCall.op = "restore"
    /\ ~lastCall.raised
    /\ lastCall.with_routing /\ lastCall.with_names
    /\ AllOk(lastCall.switch_out) /\ AllOk(lastCall.name_out)
    /\ \E i, j \in 1..Len(lastCall.routing) :
          /\ i < j
          /\ lastCall.routing[i].rx = lastCall.routing[j].rx
          /\ lastCall.routing[i].tx # lastCall.routing[j].tx
    /\ lastCall.name_calls # <<>>
    /\ ctl = lastCall.ctl_before
    /\ ctl # InitCtl

--------------------------------------------------------------------------
(* C7: restoring an id that is not stored *)

\* C7: a restore of an id that names no stored snapshot raises the not-found
\* error, calls neither switch nor a name-set, and leaves the controller as it
\* was.
C7_MissingSnapshotSendsNothing ==
    (lastCall.op = "restore" /\ lastCall.missing) =>
        /\ lastCall.raised
        /\ lastCall.switch_calls = <<>>
        /\ lastCall.name_calls = <<>>
        /\ ctl = lastCall.ctl_before

\* The id was issued and its snapshot deleted, while another snapshot with
\* routing entries and named devices is stored.
C7_Witness ==
    /\ lastCall.op = "restore"
    /\ lastCall.missing
    /\ lastCall.id <= snapSeq
    /\ lastCall.with_routing /\ lastCall.with_names
    /\ \E r \in snapshots :
          /\ Len(r.snapshot_data.routing) > 0
          /\ Len(r.snapshot_data.device_rows) > 0

--------------------------------------------------------------------------
(* C8: which names a restore sets *)

\* The k-th smallest element of a set of positions.
Nth(positions, k) ==
    CHOOSE p \in positions : Cardinality({q \in positions : q < p}) = k - 1

--------------------------------------------------------------------------
(* Snapshots while the inventory changes *)

\* get_device(device_type, device_index): the rows of that slot.
get_device(devs, dtype, idx) ==
    {i \in 1..Len(devs) : devs[i].device_type = dtype /\ devs[i].device_index = idx}

\* set_device_icon: UPDATE devices SET icon_type = ?, updated_at = CURRENT_TIMESTAMP
\* WHERE device_type = ? AND device_index = ?
set_device_icon(devs, dtype, idx, icon, t) ==
    [i \in 1..Len(devs) |->
        IF i \in get_device(devs, dtype, idx)
        THEN [devs[i] EXCEPT !.icon_type = icon, !.updated_at = t]
        ELSE devs[i]]

\* The icon routes: a stored device gets the icon; for a slot without a record
\* the route calls upsert_device without its required group_id, which raises
\* before anything is written.
SetIconCall(dtype, idx, icon) ==
    /\ pass.pc = "idle"
    /\ IF get_device(devices, dtype, idx) = {}
       THEN /\ lastCall' = [op |-> "set_icon", device_type |-> dtype, device_index |-> idx,
                            icon_type |-> icon, raised |-> TRUE, had_row |-> FALSE]
            /\ UNCHANGED devices
       ELSE /\ lastCall' = [op |-> "set_icon", device_type |-> dtype, device_index |-> idx,
                            icon_type |-> icon, raised |-> FALSE, had_row |-> TRUE]
            /\ devices' = set_device_icon(devices, dtype, idx, icon, now)
    /\ UNCHANGED <<now, supplied, pass, storeVars, tokenVars, clientVars, configVars>>

StoreUpserts == {NamedRow("rx", 1, 1, 2)}
StoreGroupRecs == {Group1}
StoreAnswers == {<<Route(1, 1), Route(2, 1)>>}

NextStore ==
    \/ Observed
    \/ /\ lastCall = NoCall
       /\ pass.pc = "idle"
       /\ \E a \in StoreUpserts : UpsertCall(a)
    \/ /\ lastCall = NoCall
       /\ \E dtype \in DeviceTypes : SetIconCall(dtype, 1, 1)
    \/ /\ lastCall = NoCall
       /\ \E reads_ok \in BOOLEAN : SyncBegin(reads_ok, <<>>)
    \/ \E group \in StoreGroupRecs : SyncGroup(group)
    \/ SyncLoopEnd
    \/ /\ lastCall = NoCall
       /\ snapSeq + 1 \in SnapshotIds
       /\ \E snap_name \in SnapshotNames, descr \in {1}, reachable \in BOOLEAN,
             answer \in StoreAnswers :
             CreateSnapshotCall(snap_name, descr, reachable, answer)
    \/ /\ lastCall = NoCall
       /\ \E snapshot_id \in SnapshotIds, restore_routing \in BOOLEAN, restore_names \in BOOLEAN :
             RestoreCall(snapshot_id, restore_routing, restore_names, {"ok"}, {"ok"})
    \/ /\ lastCall = NoCall
       /\ \E snapshot_id \in SnapshotIds : DeleteSnapshotCall(snapshot_id)

SpecStore == InitInventory /\ [][NextStore]_vars

--------------------------------------------------------------------------
(* C6: a stored snapshot is never mutated *)

\* C6: in every step, whatever operation takes it, every stored snapshot other
\* than the one a delete_snapshot names is returned by get_snapshot after the
\* step exactly as before it; and a snapshot that appears has an id that was
\* never issued, so no id comes to name other content.
C6_SnapshotNeverMutated ==
    [][/\ \A r \in snapshots :
             \/ lastCall'.op = "delete" /\ lastCall'.id = r.id
             \/ get_snapshot(snapshots', r.id) = get_snapshot(snapshots, r.id)
       /\ \A r \in snapshots' \ snapshots : r.id > snapSeq]_vars

\* Snapshot 1 has been restored after the inventory it captured was changed
\* and after a later snapshot was taken and deleted.
C6_Witness ==
    /\ lastCall.op = "restore"
    /\ lastCall.id = 1
    /\ ~lastCall.raised
    /\ snapSeq = 2
    /\ \A r \in snapshots : r.id = 1
    /\ lastCall.device_rows # <<>>
    /\ lastCall.device_rows \notin get_all_devices(devices)

--------------------------------------------------------------------------
(* moip/api_client.py: the token cache of one client *)

MaxClock == 245            \* time.time() runs over 0..MaxClock
RefreshMargin == 60        \* a token is refreshed this many seconds before it expires
ExpiresIns == {60, 300}    \* data["expiresIn"] of a login

\* The condition under which _ensure_token returns the cached token.
\* (TokenFreshInclusive is the variant that still reuses the token at the margin.)
TokenFreshInclusive(tok, expires, t) == Truthy(tok) /\ t <= expires - RefreshMargin
TokenFresh(tok, expires, t) == Truthy(tok) /\ t < expires - RefreshMargin

\* data["accessToken"] of a login at time t: a new non-empty token.
AccessToken(t) == t + 1

\* _ensure_token(): the cached token when it is fresh; otherwise _login(), which
\* raises when the request fails and stores the new token and its expiry when
\* it succeeds.
EnsureTokenCall(login_ok, expires_in) ==
    /\ IF TokenFresh(token, token_expires, now)
       THEN /\ lastCall' = [op |-> "ensure_token", at |-> now, raised |-> FALSE,
                            did_login |-> FALSE, returned |-> token,
                            token_before |-> token, expires_before |-> token_expires]
            /\ UNCHANGED tokenVars
       ELSE IF login_ok
       THEN /\ token' = AccessToken(now)
            /\ token_expires' = now + expires_in
            /\ lastCall' = [op |-> "ensure_token", at |-> now, raised |-> FALSE,
                            did_login |-> TRUE, returned |-> AccessToken(now),
                            token_before |-> token, expires_before |-> token_expires]
       ELSE /\ lastCall' = [op |-> "ensure_token", at |-> now, raised |-> TRUE,
                            did_login |-> TRUE, returned |-> NULL,
                            token_before |-> token, expires_before |-> token_expires]
            /\ UNCHANGED tokenVars
    /\ UNCHANGED <<devices, now, supplied, pass, storeVars, clientVars, configVars>>

\* time.time() advances.
ClockTick ==
    /\ now < MaxClock
    /\ now' = now + 1
    /\ UNCHANGED <<devices, supplied, lastCall, pass, storeVars, tokenVars, clientVars, configVars>>

NextToken ==
    \/ Observed
    \/ lastCall = NoCall /\ ClockTick
    \/ /\ lastCall = NoCall
       /\ \E login_ok \in BOOLEAN, expires_in \in ExpiresIns : EnsureTokenCall(login_ok, expires_in)

SpecToken == InitInventory /\ [][NextToken]_vars

\* C3: a call of _ensure_token logs in exactly when no token is cached or the
\* time is at or past the expiry less 60 seconds; a call that does not log in
\* returns the cached token and leaves the cache alone; a token cached with
\* expiry 300 is returned at time 239 and replaced by a login at 240 and 241.
C3_LoginIffStale ==
    lastCall.op = "ensure_token" =>
        /\ lastCall.did_login <=>
              (lastCall.token_before = NULL \/ lastCall.at >= lastCall.expires_before - 60)
        /\ ~lastCall.did_login =>
              /\ lastCall.returned = lastCall.token_before
              /\ token = lastCall.token_before
              /\ token_expires = lastCall.expires_before
        /\ (lastCall.did_login /\ ~lastCall.raised) =>
              /\ lastCall.returned = token
              /\ token_expires \in {lastCall.at + e : e \in ExpiresIns}
        /\ (lastCall.token_before # NULL /\ lastCall.expires_before = 300) =>
              /\ lastCall.at = 239 => ~lastCall.did_login
              /\ lastCall.at \in {240, 241} => lastCall.did_login

\* The token obtained at time 0 with expiresIn = 300 is replaced by a login at
\* time 240.
C3_Witness ==
    /\ lastCall.op = "ensure_token"
    /\ lastCall.at = 240
    /\ lastCall.token_before = AccessToken(0)
    /\ lastCall.expires_before = 300
    /\ lastCall.did_login
    /\ ~lastCall.raised
    /\ token = AccessToken(240)

--------------------------------------------------------------------------
(* moip/client.py: the text of the line protocol.  A byte string and its *)
(* decoded text are sequences of characters.                              *)

Affirmative == <<"O", "K">>
ErrorMarker == <<"#", "E", "r", "r", "o", "r">>
Newline == "\n"
InvalidByte == "0xFF"                      \* a byte that no UTF-8 text contains
Whitespace == {" ", "\n", "\r", "\t"}
DigitChars == <<"0", "1", "2", "3", "4", "5", "6", "7", "8", "9">>

IsDigit(c) == \E d \in DOMAIN DigitChars : DigitChars[d] = c
DigitValue(c) == (CHOOSE d \in DOMAIN DigitChars : DigitChars[d] = c) - 1

\* bytes.decode(): UnicodeDecodeError on a byte sequence that is not UTF-8.
DecodeRaises(bytes) == \E i \in DOMAIN bytes : bytes[i] = InvalidByte

\* str.strip()
RECURSIVE Strip(_)
Strip(str) ==
    IF str = <<>> THEN str
    ELSE IF Head(str) \in Whitespace THEN Strip(Tail(str))
    ELSE IF str[Len(str)] \in Whitespace THEN Strip(SubSeq(str, 1, Len(str) - 1))
    ELSE str

\* str.split(sep) for a separator of one character
RECURSIVE Split(_, _)
Split(str, sep) ==
    IF \E i \in DOMAIN str : str[i] = sep
    THEN LET first == CHOOSE i \in DOMAIN str :
                          str[i] = sep /\ \A j \in 1..(i - 1) : str[j] # sep
         IN <<SubSeq(str, 1, first - 1)>> \o Split(SubSeq(str, first + 1, Len(str)), sep)
    ELSE <<str>>

\* int(s): the decimal value of a text of digits, whitespace around it ignored;
\* ValueError on anything else (the texts of the model carry no sign and no
\* underscore).
IntRaises(str) ==
    \/ Strip(str) = <<>>
    \/ \E i \in DOMAIN Strip(str) : ~IsDigit(Strip(str)[i])

RECURSIVE DecimalValue(_)
DecimalValue(digits) ==
    IF digits = <<>> THEN 0
    ELSE 10 * DecimalValue(SubSeq(digits, 1, Len(digits) - 1)) + DigitValue(digits[Len(digits)])

IntOf(str) == DecimalValue(Strip(str))

\* The end of the longest run of digits that starts at position i (i - 1 when
\* str[i] is no digit): what \d+ matches there.
DigitRunEnd(str, i) ==
    CHOOSE j \in (i - 1)..Len(str) :
        /\ \A k \in i..j : IsDigit(str[k])
        /\ j < Len(str) => ~IsDigit(str[j + 1])

\* The end of the line that position i is on: what .+ matches up to.
LineEnd(str, i) ==
    CHOOSE j \in (i - 1)..Len(str) :
        /\ \A k \in i..j : str[k] # Newline
        /\ j < Len(str) => str[j + 1] = Newline

\* The positions at which the text sub starts in str.
Occurrences(str, sub) ==
    {i \in 1..(Len(str) - Len(sub) + 1) : SubSeq(str, i, i + Len(sub) - 1) = sub}

Least(positions) == CHOOSE i \in positions : \A j \in positions : i <= j

PrefixDevices == <<"?", "D", "e", "v", "i", "c", "e", "s", "=">>
PrefixReceivers == <<"?", "R", "e", "c", "e", "i", "v", "e", "r", "s", "=">>
PrefixName(k) == <<"?", "N", "a", "m", "e", "=", k, ",">>

DeviceCounts(t, r) == [tx_count |-> t, rx_count |-> r]

\* re.search(r"\?Devices=(\d+),(\d+)", text): the leftmost position where
\* the prefix, digits, a comma and digits follow one another.
DevicesMatches(text) ==
    {i \in Occurrences(text, PrefixDevices) :
        LET a == i + Len(PrefixDevices)
            b == DigitRunEnd(text, a)
        IN /\ b >= a
           /\ b + 1 <= Len(text)
           /\ text[b + 1] = ","
           /\ DigitRunEnd(text, b + 2) >= b + 2}

\* get_device_counts on the text of "?Devices"
ParseDeviceCounts(text) ==
    IF DevicesMatches(text) = {} THEN DeviceCounts(0, 0)
    ELSE LET a == Least(DevicesMatches(text)) + Len(PrefixDevices)
             b == DigitRunEnd(text, a)
         IN DeviceCounts(IntOf(SubSeq(text, a, b)),
                         IntOf(SubSeq(text, b + 2, DigitRunEnd(text, b + 2))))

\* re.search(r"\?Receivers=(.+)", text): the leftmost occurrence of the
\* prefix that at least one character other than a newline follows.
ReceiversMatches(text) ==
    {i \in Occurrences(text, PrefixReceivers) :
        LineEnd(text, i + Len(PrefixReceivers)) >= i + Len(PrefixReceivers)}

\* The loop of get_routing over the pairs: a pair of two parts is converted
\* with int() and appended, any other pair is passed over.  A ValueError of
\* int() ends the loop and leaves get_routing.
RECURSIVE RoutingPairs(_, _)
RoutingPairs(pairs, entries) ==
    IF pairs = <<>> THEN [raises |-> FALSE, value |-> entries]
    ELSE LET parts == Split(Head(pairs), ":")
         IN IF Len(parts) = 2
            THEN IF IntRaises(parts[1]) \/ IntRaises(parts[2])
                 THEN [raises |-> TRUE, value |-> entries]
                 ELSE RoutingPairs(Tail(pairs), Append(entries, Route(IntOf(parts[1]), IntOf(parts[2]))))
            ELSE RoutingPairs(Tail(pairs), entries)

\* get_routing on the text of "?Receivers"
ParseRouting(text) ==
    IF ReceiversMatches(text) = {} THEN [raises |-> FALSE, value |-> <<>>]
    ELSE LET a == Least(ReceiversMatches(text)) + Len(PrefixReceivers)
         IN RoutingPairs(Split(SubSeq(text, a, LineEnd(text, a)), ","), <<>>)

NamedDevice(n, text) == [id |-> n, name |-> text]

\* re.search(r"\?Name=k,(\d+),(.+)", line) on one line of the text
NameMatches(text, k) ==
    {i \in Occurrences(text, PrefixName(k)) :
        LET a == i + Len(PrefixName(k))
            b == DigitRunEnd(text, a)
        IN /\ b >= a
           /\ b + 2 <= Len(text)
           /\ text[b + 1] = ","}

RECURSIVE NameLines(_, _, _)
NameLines(lines, k, found) ==
    IF lines = <<>> THEN found
    ELSE IF NameMatches(Head(lines), k) = {} THEN NameLines(Tail(lines), k, found)
    ELSE LET a == Least(NameMatches(Head(lines), k)) + Len(PrefixName(k))
             b == DigitRunEnd(Head(lines), a)
         IN NameLines(Tail(lines), k,
                      Append(found, NamedDevice(IntOf(SubSeq(Head(lines), a, b)),
                                                Strip(SubSeq(Head(lines), b + 2, Len(Head(lines)))))))

\* get_transmitter_names (k = "1") and get_receiver_names (k = "0") on the
\* text of "?Name=k"
ParseNames(text, k) == NameLines(Split(text, Newline), k, <<>>)

--------------------------------------------------------------------------
(* moip/client.py: MoIPClient._send_command and the operations on it *)

MaxChunks == 2             \* the read loop of one command goes round at most this often before the peer ends its answer

SwitchOps == {"switch", "cec_power_on", "cec_power_off"}
KeyOps == {"cec_volume_up", "cec_volume_down", "cec_mute"}
QueryOps == {"get_device_counts", "get_routing", "get_transmitter_names", "get_receiver_names"}
LineOps == SwitchOps \cup KeyOps \cup QueryOps

\* The commands an operation sends, one _send_command call each.
CommandsOf(operation) ==
    CASE operation = "switch" -> <<"!Switch=1,1">>
      [] operation = "cec_power_on" -> <<"!CEC=1,04">>
      [] operation = "cec_power_off" -> <<"!CEC=1,36">>
      [] operation = "cec_volume_up" -> <<"!CEC=1,44 41", "!CEC=1,45">>
      [] operation = "cec_volume_down" -> <<"!CEC=1,44 42", "!CEC=1,45">>
      [] operation = "cec_mute" -> <<"!CEC=1,44 43", "!CEC=1,45">>
      [] operation = "get_device_counts" -> <<"?Devices">>
      [] operation = "get_routing" -> <<"?Receivers">>
      [] operation = "get_transmitter_names" -> <<"?Name=1">>
      [] operation = "get_receiver_names" -> <<"?Name=0">>

\* What an operation makes of the responses of its commands.
ResultOf(operation, texts) ==
    CASE operation \in SwitchOps ->
            [raises |-> FALSE, value |-> Contains(texts[1], Affirmative)]
      [] operation \in KeyOps ->
            [raises |-> FALSE,
             value |-> Contains(texts[1], Affirmative) /\ Contains(texts[2], Affirmative)]
      [] operation = "get_device_counts" ->
            [raises |-> FALSE, value |-> ParseDeviceCounts(texts[1])]
      [] operation = "get_routing" -> ParseRouting(texts[1])
      [] operation = "get_transmitter_names" ->
            [raises |-> FALSE, value |-> ParseNames(texts[1], "1")]
      [] operation = "get_receiver_names" ->
            [raises |-> FALSE, value |-> ParseNames(texts[1], "0")]

\* The client between two operations, no socket open.
LineIdle ==
    [op |-> "none", pc |-> "idle", raised |-> FALSE, cmds |-> <<>>, sockets |-> 0,
     carried |-> 0, connects |-> 0, sends |-> 0, turns |-> 0, response |-> <<>>, replies |-> <<>>,
     result |-> NULL, faults |-> {}]

\* Leaving the with block closes the socket, on return and on an exception.
\* (SocketLeaks is the variant that leaves the socket open.)
SocketLeaks(open) == open
SocketClosed(open) == open - 1

\* An exception leaves _send_command and the operation that called it.
LineRaises(l, fault) ==
    [l EXCEPT !.pc = "done", !.raised = TRUE, !.sockets = SocketClosed(l.sockets),
              !.faults = l.faults \cup {fault}]

\* The read loop has ended with the bytes received: they are decoded and
\* stripped, the socket is closed, and the operation sends its next command or
\* computes its result.
LineReturns(l, received) ==
    IF DecodeRaises(received) THEN LineRaises(l, "garbled")
    ELSE LET answers == Append(l.replies, Strip(received))
             outcome == ResultOf(l.op, answers)
         IN IF Len(l.cmds) > 1
            THEN [l EXCEPT !.pc = "connect", !.cmds = Tail(l.cmds),
                           !.sockets = SocketClosed(l.sockets), !.carried = 0,
                           !.connects = 0, !.sends = 0, !.turns = 0, !.response = <<>>,
                           !.replies = answers]
            ELSE [l EXCEPT !.pc = "done", !.raised = outcome.raises, !.cmds = <<>>,
                           !.sockets = SocketClosed(l.sockets),
                           !.response = received, !.replies = answers,
                           !.result = IF outcome.raises THEN NULL ELSE outcome.value]

\* A caller starts an operation of the client.
LineCall(operation) ==
    /\ line.pc \in {"idle", "done"}
    /\ line' = [LineIdle EXCEPT !.op = operation, !.pc = "connect",
                                !.cmds = CommandsOf(operation), !.sockets = line.sockets]
    /\ UNCHANGED <<devices, now, supplied, lastCall, pass, storeVars, tokenVars, api, configVars>>

ConnectOutcomes == {"ok", "refused", "connect_timeout"}

\* socket.socket(), settimeout() and connect(): a connection that is refused
\* or times out raises out of _send_command.
Connect(outcome) ==
    /\ line.pc = "connect"
    /\ LET opened == [line EXCEPT !.sockets = line.sockets + 1, !.carried = 0,
                                  !.connects = line.connects + 1]
       IN line' = IF outcome = "ok" THEN [opened EXCEPT !.pc = "send"]
                  ELSE LineRaises(opened, outcome)
    /\ UNCHANGED <<devices, now, supplied, lastCall, pass, storeVars, tokenVars, api, configVars>>

\* sendall() of the command and its newline.
Send(ok) ==
    /\ line.pc = "send"
    /\ line' = IF ok
               THEN [line EXCEPT !.pc = "recv", !.carried = line.carried + 1,
                                 !.sends = line.sends + 1, !.turns = 0, !.response = <<>>]
               ELSE LineRaises([line EXCEPT !.sends = line.sends + 1], "send_error")
    /\ UNCHANGED <<devices, now, supplied, lastCall, pass, storeVars, tokenVars, api, configVars>>

\* The bytes of the response that the model remembers while the loop goes on:
\* all of them, or the last kept ones.  The loop tests the new chunk for a
\* newline and the response for the error marker, so the last
\* Len(ErrorMarker) - 1 bytes decide how it continues.
LastBytes(bytes, kept) ==
    IF kept = NULL \/ Len(bytes) <= kept THEN bytes
    ELSE SubSeq(bytes, Len(bytes) - kept + 1, Len(bytes))

\* One turn of the read loop in which recv() returns: no bytes (the peer has
\* closed) ends the loop, bytes are added to the response and end the loop
\* when the chunk has a newline or the response has the error marker.
RecvChunk(chunk, kept) ==
    /\ line.pc = "recv"
    /\ line' = IF chunk = <<>> THEN LineReturns(line, line.response)
               ELSE IF Contains(chunk, <<Newline>>) \/ Contains(line.response \o chunk, ErrorMarker)
               THEN LineReturns(line, line.response \o chunk)
               ELSE [line EXCEPT !.turns = IF line.turns < MaxChunks THEN line.turns + 1 ELSE MaxChunks,
                                 !.response = LastBytes(line.response \o chunk, kept)]
    /\ UNCHANGED <<devices, now, supplied, lastCall, pass, storeVars, tokenVars, api, configVars>>

\* One turn of the read loop in which recv() raises socket.timeout: the loop
\* ends with what has been received.
RecvTimeout ==
    /\ line.pc = "recv"
    /\ line' = LineReturns([line EXCEPT !.faults = line.faults \cup {"read_timeout"}],
                           line.response)
    /\ UNCHANGED <<devices, now, supplied, lastCall, pass, storeVars, tokenVars, api, configVars>>

\* One turn of the read loop in which recv() raises another OSError (the
\* connection is reset): only socket.timeout is caught.
RecvError ==
    /\ line.pc = "recv"
    /\ line' = LineRaises(line, "reset")
    /\ UNCHANGED <<devices, now, supplied, lastCall, pass, storeVars, tokenVars, api, configVars>>

Text(body) == body \o <<Newline>>

\* What the peer sends in one piece in answer to a "!" command: the answers of
\* the controller, whole and cut short, and bytes that are none.
CommandChunks ==
    {<<>>, Text(Affirmative), Affirmative, ErrorMarker, <<"x">>, <<InvalidByte>>}

\* What the peer sends in one piece in answer to a "?" query.
QueryChunks ==
    {<<>>, ErrorMarker, <<"#", "E", "r">>, <<"r", "o", "r">>, <<"x">>, <<InvalidByte>>, <<Newline>>,
     Text(PrefixDevices \o <<"2", ",", "1">>), PrefixDevices \o <<"2">>,
     Text(PrefixReceivers \o <<"1", ":", "1", ",", "2", ":", "1">>),
     Text(PrefixReceivers \o <<"1", ":", "x">>), PrefixReceivers \o <<"1", ":", "1", ",", "2">>,
     Text(PrefixName("1") \o <<"1", ",", "x">>), Text(PrefixName("0") \o <<"1", ",", "x">>)}

Chunks == CommandChunks \cup QueryChunks

\* The piece ends the read loop.
EndsRead(chunk) ==
    chunk = <<>> \/ Contains(chunk, <<Newline>>) \/ Contains(line.response \o chunk, ErrorMarker)

\* The peer sends the pieces that answer the kind of command, at most
\* MaxChunks of them before one that ends the read loop.
Receivable(chunk) ==
    /\ chunk \in (IF line.op \in QueryOps THEN QueryChunks ELSE CommandChunks)
    /\ EndsRead(chunk) \/ line.turns < MaxChunks

InitLine ==
    /\ devices = <<>>
    /\ now = 0
    /\ supplied = [g \in GroupIds |-> AllNull]
    /\ lastCall = NoCall
    /\ pass = NoPass
    /\ snapshots = {}
    /\ snapSeq = 0
    /\ ctl = InitCtl
    /\ token = NULL
    /\ token_expires = 0
    /\ line = LineIdle
    /\ api = NoCall
    /\ app_settings = NoSettings
    /\ environ = NoSettings

NextLine ==
    \/ \E operation \in LineOps : LineCall(operation)
    \/ \E outcome \in ConnectOutcomes : Connect(outcome)
    \/ \E ok \in BOOLEAN : Send(ok)
    \/ \E chunk \in Chunks : Receivable(chunk) /\ RecvChunk(chunk, NULL)
    \/ RecvTimeout
    \/ RecvError

SpecLine == InitLine /\ [][NextLine]_vars

\* Every response of the operation's commands contains OK.
AllAffirmative(texts) == \A k \in DOMAIN texts : Contains(texts[k], Affirmative)

\* C11: switch and the CEC operations return true exactly when the response
\* text contains OK, and an exchange that times out, at connect or while
\* reading, makes them return (false when no OK has arrived) rather than raise.
C11_TrueIffAffirmativeNeverRaisesOnTimeout ==
    (line.pc = "done" /\ line.op \in SwitchOps \cup KeyOps) =>
        /\ ~line.raised => (line.result <=> AllAffirmative(line.replies))
        /\ line.faults \cap {"connect_timeout", "read_timeout"} # {} =>
              /\ line.faults \subseteq {"connect_timeout", "read_timeout"} => ~line.raised
              /\ (~line.raised /\ ~AllAffirmative(line.replies)) => line.result = FALSE

\* The zero or empty result of a query.
EmptyResult(operation) ==
    IF operation = "get_device_counts" THEN DeviceCounts(0, 0) ELSE <<>>

\* C12: a read-only query (get_device_counts, get_routing, the name queries)
\* whose exchange meets a transport error (connection refused, connect or read
\* timeout, garbled response) returns its zero or empty result and does not
\* raise.
C12_QueryEmptyOnTransportError ==
    (/\ line.pc = "done"
     /\ line.op \in QueryOps
     /\ line.faults \cap {"refused", "connect_timeout", "read_timeout", "garbled"} # {}) =>
        /\ ~line.raised
        /\ line.result = EmptyResult(line.op)

\* C17: no connection carries more than one command; a socket is open only
\* while _send_command is sending or reading on it, so between the commands of
\* an operation and after an operation has returned or raised no connection is
\* open.
C17_OneCommandPerConnectionAllClosed ==
    /\ line.carried <= 1
    /\ line.pc \in {"send", "recv"} => line.sockets = 1
    /\ line.pc \in {"idle", "connect", "done"} => line.sockets = 0
    /\ line.pc = "recv" => line.carried = 1

\* A two-command CEC operation has returned: both commands were answered,
\* each on a connection of its own, and no socket is open.
C17_Witness ==
    /\ line.pc = "done"
    /\ line.op = "cec_mute"
    /\ ~line.raised
    /\ Len(line.replies) = 2
    /\ line.carried = 1
    /\ line.sockets = 0

--------------------------------------------------------------------------
(* moip/client.py: _send_command against a peer that sends as long as it likes *)

KeptBytes == Len(ErrorMarker) - 1

\* What the peer sends in one piece, any number of times.
StreamChunks == {<<>>, Text(Affirmative), Affirmative, <<"x">>}

\* One turn of the read loop: recv() returns or raises within the socket
\* timeout.
RecvTurn ==
    \/ \E chunk \in StreamChunks : RecvChunk(chunk, KeptBytes)
    \/ RecvTimeout
    \/ RecvError

NextStream ==
    \/ \E operation \in SwitchOps : LineCall(operation)
    \/ \E outcome \in ConnectOutcomes : Connect(outcome)
    \/ \E ok \in BOOLEAN : Send(ok)
    \/ RecvTurn

\* The thread that runs _send_command is not held up: connect, sendall and
\* each recv return or raise within the socket timeout.
SpecStream ==
    /\ InitLine
    /\ [][NextStream]_vars
    /\ WF_vars(\E outcome \in ConnectOutcomes : Connect(outcome))
    /\ WF_vars(\E ok \in BOOLEAN : Send(ok))
    /\ WF_vars(RecvTurn)

\* C18: _send_command always terminates: whatever the peer does, a call that
\* has started returns or raises, the read loop included.
C18_SendCommandTerminates ==
    line.pc \in {"connect", "send", "recv"} ~> line.pc = "done"

--------------------------------------------------------------------------
(* moip/client.py: get_routing as a function of the response text *)

MaxBody == 4               \* the longest text after the prefix that the parser is applied to

RoutingAlphabet == {"1", "2", "x", ":", ",", Newline}

RECURSIVE TextsUpTo(_)
TextsUpTo(n) ==
    IF n = 0 THEN {<<>>}
    ELSE TextsUpTo(n - 1) \cup
         {Append(body, c) : body \in {b \in TextsUpTo(n - 1) : Len(b) = n - 1}, c \in RoutingAlphabet}

\* The bytes the controller sends back for "?Receivers": the prefix or none,
\* then any text.
RoutingReplies ==
    {lead \o body : lead \in {<<>>, PrefixReceivers}, body \in TextsUpTo(MaxBody)}

\* _send_command("?Receivers") has sent the command and the read loop has
\* ended with the bytes received.
InitRouting ==
    /\ devices = <<>>
    /\ now = 0
    /\ supplied = [g \in GroupIds |-> AllNull]
    /\ lastCall = NoCall
    /\ pass = NoPass
    /\ snapshots = {}
    /\ snapSeq = 0
    /\ ctl = InitCtl
    /\ token = NULL
    /\ token_expires = 0
    /\ \E received \in RoutingReplies :
          line = [LineIdle EXCEPT !.op = "get_routing", !.pc = "recv",
                                  !.cmds = CommandsOf("get_routing"), !.sockets = 1,
                                  !.carried = 1, !.connects = 1, !.sends = 1,
                                  !.response = received]
    /\ api = NoCall
    /\ app_settings = NoSettings
    /\ environ = NoSettings

\* The peer closes: _send_command returns the text and get_routing parses it.
NextRouting == RecvChunk(<<>>, NULL)

SpecRouting == InitRouting /\ [][NextRouting]_vars

\* The text that get_routing splits into pairs: what follows the first prefix
\* on its line, or nothing when no prefix is followed by a character.
RoutingList(text) ==
    IF ReceiversMatches(text) = {} THEN <<>>
    ELSE Split(SubSeq(text, Least(ReceiversMatches(text)) + Len(PrefixReceivers),
                      LineEnd(text, Least(ReceiversMatches(text)) + Len(PrefixReceivers))), ",")

WellFormedPair(pair) ==
    /\ Len(Split(pair, ":")) = 2
    /\ ~IntRaises(Split(pair, ":")[1])
    /\ ~IntRaises(Split(pair, ":")[2])

EntryOf(pair) == Route(IntOf(Split(pair, ":")[1]), IntOf(Split(pair, ":")[2]))

WellFormedEntries(text) ==
    LET kept == SelectSeq(RoutingList(text), WellFormedPair)
    IN [k \in DOMAIN kept |-> EntryOf(kept[k])]

\* C13: get_routing does not raise on any response; it returns, in response
\* order, one entry for every pair of two numeric parts and drops every other
\* pair; a response without the prefix gives the empty list.
C13_MalformedPairsDropped ==
    (line.pc = "done" /\ line.op = "get_routing") =>
        /\ ~line.raised
        /\ line.result = WellFormedEntries(line.replies[1])
        /\ ~Contains(line.replies[1], PrefixReceivers) => line.result = <<>>

--------------------------------------------------------------------------
(* moip/api_client.py: the requests of the REST client *)

MaxItems == 2              \* the controller has at most this many units and groups of a kind

ItemIds == 1..MaxItems
ItemKinds == {"unit", "group_tx", "group_rx"}
VideoKinds == {"video_tx", "video_rx", "video_tx_preview"}
OkStatus == 200
NoContent == 204
Unauthorized == 401
ServerError == 500

\* A request the client has sent: the call of _request it belongs to, the HTTP
\* method and the resource, <<collection, id>> with id NULL for the collection.
SentRequest(n, m, r) == [call |-> n, method |-> m, resource |-> r]
LoginResource == <<"login", NULL>>

\* The progress of an operation of the client: whether it has raised, the value
\* it holds, the token cache, the number of _request calls made, the requests
\* sent and the condition it has met.
ApiStart(tok, expires) ==
    [raises |-> FALSE, value |-> NULL, cached |-> tok, expiry |-> expires, invocations |-> 0,
     sent |-> <<>>, condition |-> "none"]

\* The controller during one operation: whether it accepts the login and the
\* expiresIn it answers; the status of the collection request; the ids whose
\* GET fails; the groups without a video association; the status of a request
\* on a video resource.
Unsets == {{}, {1}, ItemIds}

Servers ==
    {[accepts |-> a, lifetime |-> e, list_status |-> l, broken |-> f, unset |-> u,
      video_status |-> v] :
        a \in BOOLEAN, e \in ExpiresIns, l \in {OkStatus, Unauthorized},
        f \in SUBSET ItemIds, u \in Unsets, v \in {OkStatus, ServerError}}

\* The ids a collection lists: any ids in any order, each once.
RECURSIVE IdListsOf(_)
IdListsOf(ids) ==
    {<<>>} \cup UNION {{<<i>> \o rest : rest \in IdListsOf(ids \ {i})} : i \in ids}

IdLists == IdListsOf(ItemIds)

\* The video resource id the controller associates with a group.
VideoIdOf(group_id) == 10 + group_id

\* The JSON of one unit or group: its settings.index (the indexes run against
\* the ids) and its associations.video_tx / video_rx (NULL for a group
\* without one).
Detail(server, collection, item) ==
    [id |-> item, kind |-> collection,
     index |-> MaxItems + 1 - item,
     video |-> IF item \in server.unset THEN NULL ELSE VideoIdOf(item)]

\* The status the controller answers to a request.
StatusOf(server, listed, r) ==
    IF r[1] \in VideoKinds THEN server.video_status
    ELSE IF r[2] = NULL THEN server.list_status
    ELSE IF r[2] \in server.broken THEN ServerError
    ELSE OkStatus

\* The JSON body the controller answers to a GET.
BodyOf(server, listed, r) ==
    IF r[1] \in VideoKinds THEN [id |-> r[2], kind |-> r[1]]
    ELSE IF r[2] = NULL THEN listed
    ELSE Detail(server, r[1], r[2])

\* _login(): one POST; raise_for_status() raises on a refusal, otherwise the
\* token and its expiry are stored.
\* (LoginClearsOnFailure is the variant that drops the cached token when the
\* login is refused.)
LoginClearsOnFailure(s, t, server) ==
    IF server.accepts
    THEN [s EXCEPT !.raises = FALSE, !.value = AccessToken(t), !.cached = AccessToken(t),
                   !.expiry = t + server.lifetime,
                   !.sent = Append(s.sent, SentRequest(s.invocations, "POST", LoginResource))]
    ELSE [s EXCEPT !.raises = TRUE, !.value = NULL, !.cached = NULL, !.expiry = 0,
                   !.sent = Append(s.sent, SentRequest(s.invocations, "POST", LoginResource))]
LoginOf(s, t, server) ==
    IF server.accepts
    THEN [s EXCEPT !.raises = FALSE, !.value = AccessToken(t), !.cached = AccessToken(t),
                   !.expiry = t + server.lifetime,
                   !.sent = Append(s.sent, SentRequest(s.invocations, "POST", LoginResource))]
    ELSE [s EXCEPT !.raises = TRUE, !.value = NULL,
                   !.sent = Append(s.sent, SentRequest(s.invocations, "POST", LoginResource))]

\* _ensure_token(): the cached token when it is fresh, otherwise _login().
EnsureTokenOf(s, t, server) ==
    IF TokenFresh(s.cached, s.expiry, t) THEN [s EXCEPT !.raises = FALSE, !.value = s.cached]
    ELSE LoginOf(s, t, server)

\* What follows _ensure_token() in _request: the request is sent once, with
\* the token; raise_for_status() raises on a 4xx or 5xx answer, a 204 gives
\* None and any other answer its JSON.
\* (ResendAfterUnauthorized is the variant that logs in and sends again after a 401.)
ResendAfterUnauthorized(e, t, method, r, server, listed) ==
    LET first == Append(e.sent, SentRequest(e.invocations, method, r))
    IN IF StatusOf(server, listed, r) = Unauthorized
       THEN [LoginOf([e EXCEPT !.sent = first], t, server) EXCEPT
                 !.raises = TRUE, !.value = NULL,
                 !.sent = Append(@, SentRequest(e.invocations, method, r))]
       ELSE IF StatusOf(server, listed, r) >= 400
       THEN [e EXCEPT !.raises = TRUE, !.value = NULL, !.sent = first]
       ELSE [e EXCEPT !.value = IF StatusOf(server, listed, r) = NoContent THEN NULL
                                 ELSE BodyOf(server, listed, r),
                      !.sent = first]

SendOnce(e, t, method, r, server, listed) ==
    IF StatusOf(server, listed, r) >= 400
    THEN [e EXCEPT !.raises = TRUE, !.value = NULL,
                   !.sent = Append(e.sent, SentRequest(e.invocations, method, r))]
    ELSE [e EXCEPT !.value = IF StatusOf(server, listed, r) = NoContent THEN NULL
                              ELSE BodyOf(server, listed, r),
                   !.sent = Append(e.sent, SentRequest(e.invocations, method, r))]

\* _request(method, endpoint)
Request(s, t, method, r, server, listed) ==
    LET e == EnsureTokenOf([s EXCEPT !.invocations = s.invocations + 1], t, server)
    IN IF e.raises THEN e ELSE SendOnce(e, t, method, r, server, listed)

\* The loop of get_all_*_detailed over the listed ids: the detail of an id is
\* appended when its GET returns and passed over when it raises.
\* (FetchStopsAtFailure is the variant that ends the loop at the first failure.)
RECURSIVE FetchStopsAtFailure(_, _, _, _, _, _, _)
FetchStopsAtFailure(s, t, collection, ids, server, listed, found) ==
    IF ids = <<>> THEN [s EXCEPT !.raises = FALSE, !.value = found]
    ELSE LET got == Request(s, t, "GET", <<collection, Head(ids)>>, server, listed)
         IN IF got.raises THEN [got EXCEPT !.raises = FALSE, !.value = found]
            ELSE FetchStopsAtFailure(got, t, collection, Tail(ids), server, listed, Append(found, got.value))

RECURSIVE FetchEach(_, _, _, _, _, _, _)
FetchEach(s, t, collection, ids, server, listed, found) ==
    IF ids = <<>> THEN [s EXCEPT !.raises = FALSE, !.value = found]
    ELSE LET got == Request(s, t, "GET", <<collection, Head(ids)>>, server, listed)
         IN FetchEach(got, t, collection, Tail(ids), server, listed,
                      IF got.raises THEN found ELSE Append(found, got.value))

\* get_all_units_detailed, get_all_group_tx_detailed, get_all_group_rx_detailed:
\* the ids of the collection are requested (a failure of that request leaves
\* the operation), then each id's detail.
GetAllDetailed(s, t, collection, server, listed) ==
    LET ids == Request(s, t, "GET", <<collection, NULL>>, server, listed)
    IN IF ids.raises THEN ids
       ELSE FetchEach(ids, t, collection, ids.value, server, listed, <<>>)

--------------------------------------------------------------------------
(* moip/api_client.py: the video operations *)

VideoOps ==
    {"get_video_tx", "get_video_rx", "get_video_tx_preview",
     "set_video_rx_resolution", "set_video_rx_hdcp"}
DetailOps == {"get_all_units_detailed", "get_all_group_tx_detailed", "get_all_group_rx_detailed"}

\* The collection an operation reads.
CollectionOf(operation) ==
    CASE operation = "get_all_units_detailed" -> "unit"
      [] operation \in {"get_all_group_tx_detailed", "get_video_tx", "get_video_tx_preview"} -> "group_tx"
      [] OTHER -> "group_rx"

\* The video resource an operation addresses, and how.
VideoKindOf(operation) ==
    CASE operation = "get_video_tx" -> "video_tx"
      [] operation = "get_video_tx_preview" -> "video_tx_preview"
      [] OTHER -> "video_rx"

MethodOf(operation) ==
    IF operation \in {"set_video_rx_resolution", "set_video_rx_hdcp"} THEN "PUT" ELSE "GET"

\* _get_video_tx_id / _get_video_rx_id: the association of the first group
\* whose settings.index is the wanted index, None when there is none.
RECURSIVE ResolveVideoId(_, _)
ResolveVideoId(groups, wanted) ==
    IF groups = <<>> THEN NULL
    ELSE IF Head(groups).index = wanted THEN Head(groups).video
    ELSE ResolveVideoId(Tail(groups), wanted)

\* if not video_tx_id / if not video_rx_id
\* (NotFoundUnchecked is the variant without the test.)
NotFoundUnchecked(video_id) == FALSE
NotFound(video_id) == ~Truthy(video_id)

\* What the operations give when the resolution finds nothing: the two getters
\* return a record with an error text, the others raise ValueError with it.
NoVideoRecord == [error |-> "No video found"]

\* get_video_tx, get_video_rx, get_video_tx_preview, set_video_rx_resolution
\* and set_video_rx_hdcp for the index wanted.  A failure of the collection
\* request leaves the operation; the preview is fetched with _ensure_token and
\* a GET of its own.
VideoOp(s, t, operation, wanted, server, listed) ==
    LET groups == GetAllDetailed(s, t, CollectionOf(operation), server, listed)
    IN IF groups.raises THEN groups
       ELSE IF NotFound(ResolveVideoId(groups.value, wanted))
       THEN IF operation \in {"get_video_tx", "get_video_rx"}
            THEN [groups EXCEPT !.value = NoVideoRecord, !.condition = "not_found"]
            ELSE [groups EXCEPT !.raises = TRUE, !.value = NULL, !.condition = "not_found"]
       ELSE Request(groups, t, MethodOf(operation),
                    <<VideoKindOf(operation), ResolveVideoId(groups.value, wanted)>>, server, listed)

\* One call of an operation of the client by a caller: the token cache is the
\* client's, before and after.
ApiCall(operation, wanted, server, listed) ==
    /\ LET done == IF operation \in DetailOps
                   THEN GetAllDetailed(ApiStart(token, token_expires), now,
                                       CollectionOf(operation), server, listed)
                   ELSE VideoOp(ApiStart(token, token_expires), now, operation, wanted,
                                server, listed)
       IN /\ api' = [op |-> operation, index |-> wanted, raised |-> done.raises,
                     value |-> done.value, sent |-> done.sent,
                     condition |-> done.condition, peer |-> server, listing |-> listed]
          /\ token' = done.cached
          /\ token_expires' = done.expiry
    /\ UNCHANGED <<devices, now, supplied, lastCall, pass, storeVars, line, configVars>>

\* One operation of a new client.
NextApi ==
    \/ /\ api = NoCall
       /\ \E operation \in DetailOps, server \in Servers, listed \in IdLists :
             ApiCall(operation, NULL, server, listed)
    \/ /\ api = NoCall
       /\ \E operation \in VideoOps, wanted \in ItemIds, server \in Servers, listed \in IdLists :
             ApiCall(operation, wanted, server, listed)

SpecApi == InitInventory /\ [][NextApi]_vars

\* The requests sent for a resource of one of the kinds.
SentTo(sent, kinds) == SelectSeq(sent, LAMBDA q : q.resource[1] \in kinds)

\* The ids of the listing whose GET the controller answers.
Answered(server, listed) == SelectSeq(listed, LAMBDA i : i \notin server.broken)

\* C14: when the collection has been listed, get_all_units_detailed,
\* get_all_group_tx_detailed and get_all_group_rx_detailed do not raise; they
\* return the details of exactly the listed ids whose GET succeeded, in the
\* order of the list, and they have requested every listed id, in that order,
\* whichever of them failed.
C14_DetailsOfSucceededFetches ==
    (api.op \in DetailOps /\ api.peer.accepts /\ api.peer.list_status = OkStatus) =>
        /\ ~api.raised
        /\ api.value = [k \in DOMAIN Answered(api.peer, api.listing) |->
                           Detail(api.peer, CollectionOf(api.op),
                                  Answered(api.peer, api.listing)[k])]
        /\ LET items == SelectSeq(api.sent, LAMBDA q : q.resource[1] = CollectionOf(api.op)
                                                       /\ q.resource[2] # NULL)
           IN [k \in DOMAIN items |-> items[k].resource[2]] = api.listing

\* A list of two ids whose first GET fails: the second is fetched and returned.
C14_Witness ==
    /\ api.op = "get_all_group_tx_detailed"
    /\ Len(api.listing) = 2
    /\ api.listing[1] \in api.peer.broken
    /\ api.listing[2] \notin api.peer.broken
    /\ ~api.raised
    /\ Len(api.value) = 1
    /\ api.value[1].id = api.listing[2]

\* The resolution finds a video resource: a listed group whose GET succeeds has
\* the wanted index and a video association.
Resolvable(server, listed, collection, wanted) ==
    \E k \in DOMAIN Answered(server, listed) :
        /\ Detail(server, collection, Answered(server, listed)[k]).index = wanted
        /\ Truthy(Detail(server, collection, Answered(server, listed)[k]).video)

\* C15: when the groups have been read and the resolution of the index finds
\* nothing, every video operation ends with the not-found condition (the two
\* getters return the error record, the preview and the two setters raise) and
\* has sent no request to a video endpoint.
C15_NotFoundSendsNoVideoRequest ==
    (/\ api.op \in VideoOps
     /\ api.peer.accepts
     /\ api.peer.list_status = OkStatus
     /\ ~Resolvable(api.peer, api.listing, CollectionOf(api.op), api.index)) =>
        /\ api.condition = "not_found"
        /\ SentTo(api.sent, VideoKinds) = <<>>
        /\ api.raised <=> api.op \notin {"get_video_tx", "get_video_rx"}
        /\ ~api.raised => api.value = NoVideoRecord

\* set_video_rx_hdcp for an index whose group is listed and fetched but has no
\* video association, while another group has one.
C15_Witness ==
    /\ api.op = "set_video_rx_hdcp"
    /\ Len(api.listing) = 2
    /\ api.peer.broken = {}
    /\ api.peer.unset = {1}
    /\ api.index = MaxItems
    /\ api.raised
    /\ api.condition = "not_found"
    /\ Len(api.sent) >= 3

--------------------------------------------------------------------------
(* Both clients: what one invocation sends *)

\* A caller uses the REST client once or the line client any number of times.
NextClients ==
    \/ /\ line.pc = "idle"
       /\ NextApi
    \/ /\ api = NoCall
       /\ NextLine

SpecClients == InitLine /\ [][NextClients]_vars

\* The calls of _request that have sent something, and what each has sent.
InvocationsOf(sent) == {sent[k].call : k \in DOMAIN sent}
LoginsIn(sent, n) == Len(SelectSeq(sent, LAMBDA q : q.call = n /\ q.resource = LoginResource))
ResourcesIn(sent, n) == Len(SelectSeq(sent, LAMBDA q : q.call = n /\ q.resource # LoginResource))

\* C16 as stated: every invocation of _request sends at most one login request
\* and exactly one resource request, a refused request is raised without a
\* second login or a resend, and every invocation of _send_command opens one
\* connection and sends the command once.
C16_ExactlyOneRequestPerInvocation ==
    /\ api # NoCall =>
          \A n \in InvocationsOf(api.sent) :
              LoginsIn(api.sent, n) <= 1 /\ ResourcesIn(api.sent, n) = 1
    /\ line.pc = "done" => line.connects = 1 /\ line.sends = 1

\* C16 as amended: no operation retries.  An invocation of _request sends at
\* most one login request and at most one resource request, none exactly when
\* its login is refused; a collection request answered 401 is raised after
\* that one request, and a video request answered 500 is raised as the last
\* request; an invocation of _send_command connects once and sends the command
\* at most once, not at all exactly when the connect fails.
C16_NoRetries ==
    /\ api # NoCall =>
          /\ \A n \in InvocationsOf(api.sent) :
                /\ LoginsIn(api.sent, n) <= 1
                /\ ResourcesIn(api.sent, n) <= 1
                /\ ResourcesIn(api.sent, n) = 0 <=>
                      (LoginsIn(api.sent, n) = 1 /\ ~api.peer.accepts)
          /\ (api.peer.accepts /\ api.peer.list_status = Unauthorized) =>
                /\ api.raised
                /\ api.sent = <<SentRequest(1, "POST", LoginResource),
                                SentRequest(1, "GET", <<CollectionOf(api.op), NULL>>)>>
          /\ (SentTo(api.sent, VideoKinds) # <<>> /\ api.peer.video_status = ServerError) =>
                /\ api.raised
                /\ Len(SentTo(api.sent, VideoKinds)) = 1
                /\ api.sent[Len(api.sent)].resource[1] \in VideoKinds
    /\ line.connects <= 1
    /\ line.sends <= 1
    /\ line.pc = "recv" => line.connects = 1 /\ line.sends = 1
    /\ line.pc = "done" =>
          /\ line.connects = 1
          /\ line.sends = 0 <=> line.faults \cap {"refused", "connect_timeout"} # {}

\* A collection request answered 401 after a login that was accepted.
C16_Witness ==
    /\ api # NoCall
    /\ api.op = "get_all_units_detailed"
    /\ api.peer.accepts
    /\ api.peer.list_status = Unauthorized
    /\ api.raised
    /\ Len(api.sent) = 2

--------------------------------------------------------------------------
(* moip/api_client.py: callers of _ensure_token on one client at the same time *)

MaxCallers == 2            \* the threads that call _ensure_token on the client

Callers == 1..MaxCallers

\* The token caches the callers find: none, one within 60 seconds of its
\* expiry, one that is fresh.
TokenCaches == {<<NULL, 0>>, <<1, 30>>, <<1, 300>>}

\* The tokens the controller issues: each login gets a new one.
IssuedToken(serial) == 10 + serial

\* The callers before their calls.
RaceStart ==
    [op |-> "ensure_token", pcs |-> [c \in Callers |-> "test_token"],
     saw_stale |-> [c \in Callers |-> FALSE], logins |-> [c \in Callers |-> 0],
     granted |-> [c \in Callers |-> NULL], granted_for |-> [c \in Callers |-> 0],
     obtained |-> [c \in Callers |-> NULL], refused |-> [c \in Callers |-> FALSE], issued |-> 0]

InitRace ==
    /\ devices = <<>>
    /\ now = 0
    /\ supplied = [g \in GroupIds |-> AllNull]
    /\ lastCall = NoCall
    /\ pass = NoPass
    /\ snapshots = {}
    /\ snapSeq = 0
    /\ ctl = InitCtl
    /\ \E cache \in TokenCaches : token = cache[1] /\ token_expires = cache[2]
    /\ line = NoCall
    /\ api = RaceStart
    /\ app_settings = NoSettings
    /\ environ = NoSettings

\* What a caller does once its test has failed: it logs in, whatever the cache
\* holds by then.
\* (LoginUnlessRefreshed is the variant that tests the cache again first.)
LoginUnlessRefreshed(tok, expires, t) == ~TokenFresh(tok, expires, t)
LoginAfterFailedTest(tok, expires, t) == TRUE

\* "if self._token": the caller reads the token; none sends it to _login.
TestToken(c) ==
    /\ api.pcs[c] = "test_token"
    /\ api' = IF Truthy(token) THEN [api EXCEPT !.pcs[c] = "test_expiry"]
              ELSE [api EXCEPT !.pcs[c] = "login", !.saw_stale[c] = TRUE]
    /\ UNCHANGED <<devices, now, supplied, lastCall, pass, storeVars, tokenVars, line, configVars>>

\* "and time.time() < self._token_expires - 60": the caller reads the expiry
\* and returns the token the cache holds, or goes on to _login.
TestExpiry(c) ==
    /\ api.pcs[c] = "test_expiry"
    /\ api' = IF now < token_expires - RefreshMargin
              THEN [api EXCEPT !.pcs[c] = "done", !.obtained[c] = token]
              ELSE [api EXCEPT !.pcs[c] = "login", !.saw_stale[c] = TRUE]
    /\ UNCHANGED <<devices, now, supplied, lastCall, pass, storeVars, tokenVars, line, configVars>>

\* _login(): the POST and raise_for_status(); the controller issues a token,
\* or refuses and the caller's call raises.
PostLogin(c, login_ok, expires_in) ==
    /\ api.pcs[c] = "login"
    /\ api' = IF ~LoginAfterFailedTest(token, token_expires, now)
              THEN [api EXCEPT !.pcs[c] = "done", !.obtained[c] = token]
              ELSE IF login_ok
              THEN [api EXCEPT !.pcs[c] = "store_token", !.logins[c] = @ + 1,
                               !.granted[c] = IssuedToken(api.issued),
                               !.granted_for[c] = expires_in, !.issued = @ + 1]
              ELSE [api EXCEPT !.pcs[c] = "done", !.logins[c] = @ + 1, !.refused[c] = TRUE]
    /\ UNCHANGED <<devices, now, supplied, lastCall, pass, storeVars, tokenVars, line, configVars>>

\* self._token = data["accessToken"]
StoreToken(c) ==
    /\ api.pcs[c] = "store_token"
    /\ token' = api.granted[c]
    /\ api' = [api EXCEPT !.pcs[c] = "store_expiry"]
    /\ UNCHANGED <<devices, now, supplied, lastCall, pass, storeVars, token_expires, line, configVars>>

\* self._token_expires = time.time() + data["expiresIn"]
StoreExpiry(c) ==
    /\ api.pcs[c] = "store_expiry"
    /\ token_expires' = now + api.granted_for[c]
    /\ api' = [api EXCEPT !.pcs[c] = "return"]
    /\ UNCHANGED <<devices, now, supplied, lastCall, pass, storeVars, token, line, configVars>>

\* return self._token
ReturnToken(c) ==
    /\ api.pcs[c] = "return"
    /\ api' = [api EXCEPT !.pcs[c] = "done", !.obtained[c] = token]
    /\ UNCHANGED <<devices, now, supplied, lastCall, pass, storeVars, tokenVars, line, configVars>>

NextRace ==
    \/ \E c \in Callers : TestToken(c)
    \/ \E c \in Callers : TestExpiry(c)
    \/ \E c \in Callers, login_ok \in BOOLEAN, expires_in \in ExpiresIns : PostLogin(c, login_ok, expires_in)
    \/ \E c \in Callers : StoreToken(c)
    \/ \E c \in Callers : StoreExpiry(c)
    \/ \E c \in Callers : ReturnToken(c)

SpecRace == InitRace /\ [][NextRace]_vars

\* C19: nothing limits concurrent refreshes to one login.  Every caller whose
\* test of the cache failed performs a login of its own, whatever the other
\* callers have stored in the meantime, and a caller whose test passed
\* performs none; so callers that all test before any of them stores each log
\* in.
C19_EveryStaleCallerLogsIn ==
    \A c \in Callers :
        /\ api.pcs[c] \in {"store_token", "store_expiry", "return", "done"} =>
              api.logins[c] = (IF api.saw_stale[c] THEN 1 ELSE 0)
        /\ api.logins[c] <= 1
        /\ api.issued <= MaxCallers

\* All callers found no token, and each has logged in and been issued a token
\* of its own before any of them has stored one.
C19_Witness ==
    /\ token = NULL
    /\ \A c \in Callers :
          /\ api.pcs[c] = "store_token"
          /\ api.saw_stale[c]
          /\ api.logins[c] = 1
    /\ api.issued = MaxCallers
    /\ \A c, d \in Callers : c # d => api.granted[c] # api.granted[d]

--------------------------------------------------------------------------
(* app/routes/devices.py: the bulk video queries *)

MaxWorkers == 10
MaxCount == 11             \* the controller reports at most this many transmitters or receivers

BulkOps == {"get_all_transmitter_video_stats", "get_all_receiver_video_settings"}

\* The device counts the controller reports.
BulkCounts == {0, 1, MaxWorkers, MaxCount}

\* The indexes whose per-index call may find no video resource or raise.
Flaky == {1, MaxCount}
FetchOutcomes(i) == IF i \in Flaky THEN {"ok", "no_video", "raise"} ELSE {"ok"}

\* What fetch_video_stat / fetch_video_settings return for an index: the
\* values read from the video resource, or the placeholder when the call
\* returned the error record or raised.
Placeholder(i) == [id |-> i, resolution |-> NULL]
FetchResult(i, outcome) ==
    IF outcome = "ok" THEN [id |-> i, resolution |-> 1] ELSE Placeholder(i)

\* A worker of ThreadPoolExecutor(max_workers=10) is free to take a call.
\* (WorkerPerCall is the variant that starts a thread for every call.)
WorkerPerCall(busy) == TRUE
WorkerFree(busy) == Cardinality(busy) < MaxWorkers

BulkIdle ==
    [op |-> "none", pc |-> "idle", raised |-> FALSE, count |-> 0, value |-> <<>>, queued |-> 1,
     in_flight |-> {}, results |-> <<>>, ended_as |-> <<>>]

InitBulk ==
    /\ devices = <<>>
    /\ now = 0
    /\ supplied = [g \in GroupIds |-> AllNull]
    /\ lastCall = NoCall
    /\ pass = NoPass
    /\ snapshots = {}
    /\ snapSeq = 0
    /\ ctl = InitCtl
    /\ token = NULL
    /\ token_expires = 0
    /\ line = NoCall
    /\ api = BulkIdle
    /\ app_settings = NoSettings
    /\ environ = NoSettings

\* The route is called: get_device_counts() gives the count, or raises and the
\* route answers 500; executor.map submits one call per index 1..count, in
\* index order.
BulkStart(operation, reachable, n) ==
    /\ api.pc = "idle"
    /\ api' = IF reachable
              THEN [BulkIdle EXCEPT !.op = operation, !.pc = "mapping", !.count = n,
                                    !.results = [i \in 1..n |-> NULL],
                                    !.ended_as = [i \in 1..n |-> "none"]]
              ELSE [BulkIdle EXCEPT !.op = operation, !.pc = "done", !.raised = TRUE]
    /\ UNCHANGED <<devices, now, supplied, lastCall, pass, storeVars, tokenVars, line, configVars>>

\* A free worker takes the next call of the queue.
TaskStart ==
    /\ api.pc = "mapping"
    /\ api.queued <= api.count
    /\ WorkerFree(api.in_flight)
    /\ api' = [api EXCEPT !.queued = @ + 1, !.in_flight = @ \cup {api.queued}]
    /\ UNCHANGED <<devices, now, supplied, lastCall, pass, storeVars, tokenVars, line, configVars>>

\* A call in flight ends: its try/except turns every outcome into a result.
TaskEnd(i, outcome) ==
    /\ api.pc = "mapping"
    /\ i \in api.in_flight
    /\ outcome \in FetchOutcomes(i)
    /\ api' = [api EXCEPT !.in_flight = @ \ {i}, !.results[i] = FetchResult(i, outcome),
                          !.ended_as[i] = outcome]
    /\ UNCHANGED <<devices, now, supplied, lastCall, pass, storeVars, tokenVars, line, configVars>>

\* list(executor.map(...)) has the result of every call, in the order the
\* calls were submitted, and the route returns it.
BulkReturn ==
    /\ api.pc = "mapping"
    /\ api.queued > api.count
    /\ api.in_flight = {}
    /\ api' = [api EXCEPT !.pc = "done", !.value = [k \in 1..api.count |-> api.results[k]]]
    /\ UNCHANGED <<devices, now, supplied, lastCall, pass, storeVars, tokenVars, line, configVars>>

NextBulk ==
    \/ \E operation \in BulkOps, reachable \in BOOLEAN, n \in BulkCounts : BulkStart(operation, reachable, n)
    \/ TaskStart
    \/ \E i \in 1..MaxCount, outcome \in {"ok", "no_video", "raise"} : TaskEnd(i, outcome)
    \/ BulkReturn

SpecBulk == InitBulk /\ [][NextBulk]_vars

\* C20: a bulk video query never has more than 10 per-index calls in flight;
\* when it returns it gives one result per index 1..count in index order, the
\* placeholder for an index whose call failed or found no video resource.
C20_BoundedPoolOrderedResults ==
    /\ Cardinality(api.in_flight) <= 10
    /\ (api.pc = "done" /\ ~api.raised) =>
          /\ Len(api.value) = api.count
          /\ \A k \in 1..api.count :
                /\ api.value[k].id = k
                /\ api.ended_as[k] # "none"
                /\ api.ended_as[k] # "ok" => api.value[k] = Placeholder(k)
                /\ api.ended_as[k] = "ok" => api.value[k] # Placeholder(k)

\* More indexes than workers: the first call raised, the last found no video
\* resource, and the query returned a result for every index.
C20_Witness ==
    /\ api.pc = "done"
    /\ api.count = MaxCount
    /\ api.ended_as[1] = "raise"
    /\ api.ended_as[MaxCount] = "no_video"
    /\ api.ended_as[2] = "ok"
    /\ Len(api.value) = MaxCount

--------------------------------------------------------------------------
(* app/sync.py: determine_subtype as a function of the two texts *)

MaxWords == 2              \* the most words a type or model text is made of

\* Words of settings.type texts and pieces of model names.
TypeWords ==
    {<<"a", "v">>, <<"a", "u", "d", "i", "o">>, <<"v", "i", "d", "e", "o">>,
     <<"W", "a", "l", "l">>, <<" ">>}
ModelWords ==
    {<<"B", "-", "9", "0", "0">>, <<"-", "4", "K", "-", "R", "X">>,
     <<"-", "A", "-", "R", "X">>, <<"-", "a", "-", "t", "x">>,
     <<"A", "-", "R", "X">>, <<"W", "a", "l", "l">>}

RECURSIVE Phrases(_, _)
Phrases(words, n) ==
    IF n = 0 THEN {<<>>}
    ELSE Phrases(words, n - 1) \cup {p \o w : p \in Phrases(words, n - 1), w \in words}

\* determine_subtype is about to be called with a group whose settings.type is
\* some text (or absent) and a model that is some text (or None).
SubtypeCall(group_type, model_text) ==
    [op |-> "determine_subtype", model |-> model_text, pc |-> "call", type |-> group_type,
     result |-> "none"]

InitSubtype ==
    /\ devices = <<>>
    /\ now = 0
    /\ supplied = [g \in GroupIds |-> AllNull]
    /\ \E group_type \in Phrases(TypeWords, MaxWords), model_text \in Phrases(ModelWords, MaxWords) :
          lastCall = SubtypeCall(group_type, model_text)
    /\ pass = NoPass
    /\ snapshots = {}
    /\ snapSeq = 0
    /\ ctl = InitCtl
    /\ token = NULL
    /\ token_expires = 0
    /\ line = NoCall
    /\ api = NoCall
    /\ app_settings = NoSettings
    /\ environ = NoSettings

\* determine_subtype returns.
SubtypeReturn ==
    /\ lastCall.pc = "call"
    /\ lastCall' = [lastCall EXCEPT !.pc = "done",
                                    !.result = SubtypeOf(Lower(lastCall.type), Lower(lastCall.model))]
    /\ UNCHANGED <<devices, now, supplied, pass, storeVars, tokenVars, clientVars, configVars>>

SpecSubtype == InitSubtype /\ [][SubtypeReturn]_vars

\* The rules of the claim, each on the lower-cased text.
TypeIsWall(t) == Contains(Lower(t), <<"v", "i", "d", "e", "o">>) /\ Contains(Lower(t), <<"w", "a", "l", "l">>)
TypeIsAudio(t) == Lower(t) = <<"a", "u", "d", "i", "o">>
TypeIsAv(t) == Lower(t) = <<"a", "v">>
ModelIsAudio(t) == Contains(Lower(t), <<"-", "a", "-", "r", "x">>) \/ Contains(Lower(t), <<"-", "a", "-", "t", "x">>)
ModelIsWall(t) == Contains(Lower(t), <<"w", "a", "l", "l">>)

\* C21: determine_subtype applies its rules in order and the first match
\* decides: a type with both 'video' and 'wall' gives videowall, a type equal to
\* 'audio' gives audio, equal to 'av' gives av, otherwise a model with -a-rx or
\* -a-tx gives audio, otherwise a model with 'wall' gives videowall, otherwise
\* av; so an explicit type always wins over the model.
C21_FirstMatchingRuleDecides ==
    lastCall.pc = "done" =>
        /\ TypeIsWall(lastCall.type) => lastCall.result = "videowall"
        /\ ~TypeIsWall(lastCall.type) /\ TypeIsAudio(lastCall.type) => lastCall.result = "audio"
        /\ ~TypeIsWall(lastCall.type) /\ TypeIsAv(lastCall.type) => lastCall.result = "av"
        /\ ~TypeIsWall(lastCall.type) /\ ~TypeIsAudio(lastCall.type) /\ ~TypeIsAv(lastCall.type) =>
              /\ ModelIsAudio(lastCall.model) => lastCall.result = "audio"
              /\ ~ModelIsAudio(lastCall.model) /\ ModelIsWall(lastCall.model) =>
                    lastCall.result = "videowall"
              /\ ~ModelIsAudio(lastCall.model) /\ ~ModelIsWall(lastCall.model) =>
                    lastCall.result = "av"

\* Type 'av' with model B-900-A-RX has been classified as av.
C21_Witness ==
    /\ lastCall.pc = "done"
    /\ lastCall.type = <<"a", "v">>
    /\ lastCall.model = <<"B", "-", "9", "0", "0", "-", "A", "-", "R", "X">>
    /\ lastCall.result = "av"

--------------------------------------------------------------------------
(* config.py: get_setting, get_moip_settings and the import-time variables; *)
(* the line-protocol clients the routes build                               *)

\* Setting keys: two with an environment variable, one without.
SettingKeys == {"controller_ip", "telnet_port", "timeout"}

\* _DEFAULTS.get(key, "")
DefaultOf(k) ==
    CASE k = "telnet_port" -> <<"2", "3">>
      [] k = "timeout" -> <<"1", "0">>
      [] OTHER -> <<>>

\* env_map.get(key): the name of the environment variable, "" for None.
EnvName(k) ==
    CASE k = "controller_ip" -> "MOIP_HOST"
      [] k = "telnet_port" -> "MOIP_TELNET_PORT"
      [] OTHER -> ""

\* The texts a request stores under a key, and the environments the process can
\* start in: MOIP_TELNET_PORT is a number when set, since config.py applies
\* int() to it while it is imported.
SettingTexts == {<<>>, <<"h">>, <<"2", "4">>}
Environments ==
    {[n \in names |-> IF n = "MOIP_HOST" THEN h ELSE <<"2", "5">>] :
        names \in SUBSET {"MOIP_HOST", "MOIP_TELNET_PORT"}, h \in {<<>>, <<"e">>}}

\* db.get_all_settings() inside the try of get_setting: the table, or nothing
\* when the read raises.
StoredSettings(table, readable) == IF readable THEN table ELSE NoSettings

\* get_setting(key, default) over the table read and the environment ('' stands
\* for a default of None).
get_setting(stored, env, k, default) ==
    IF k \in DOMAIN stored /\ stored[k] # <<>> THEN stored[k]
    ELSE IF EnvName(k) # "" /\ EnvName(k) \in DOMAIN env /\ env[EnvName(k)] # <<>>
         THEN env[EnvName(k)]
    ELSE IF default # <<>> THEN default
    ELSE DefaultOf(k)

\* os.getenv(name, default)
Getenv(env, n, default) == IF n \in DOMAIN env THEN env[n] ELSE default

\* The module variables MOIP_HOST and MOIP_TELNET_PORT, evaluated when config is
\* imported.
MOIP_HOST == Getenv(environ, "MOIP_HOST", <<>>)
MOIP_TELNET_PORT == IntOf(Getenv(environ, "MOIP_TELNET_PORT", <<"2", "3">>))

\* MoIPClient(host, port): the address the client connects to.
MoIPClient(h, p) == [host |-> h, port |-> p]

\* get_moip_settings() raises when int() rejects a port or the timeout.
SettingsRaise(stored, env) ==
    \/ IntRaises(get_setting(stored, env, "telnet_port", <<>>))
    \/ IntRaises(get_setting(stored, env, "timeout", <<>>))

\* The client of routes/devices.py, sync_devices, create_config_snapshot and
\* restore_config_snapshot: its address comes from get_moip_settings().
SettingsClient(stored, env) ==
    MoIPClient(get_setting(stored, env, "controller_ip", <<>>),
               IntOf(get_setting(stored, env, "telnet_port", <<>>)))

\* The client of routes/switching.py: its address is the import-time variables.
SwitchingClient == MoIPClient(MOIP_HOST, MOIP_TELNET_PORT)

NoClient == MoIPClient(<<>>, 0)

InitSettings ==
    /\ devices = <<>>
    /\ now = 0
    /\ supplied = [g \in GroupIds |-> AllNull]
    /\ lastCall = NoCall
    /\ pass = NoPass
    /\ snapshots = {}
    /\ snapSeq = 0
    /\ ctl = InitCtl
    /\ token = NULL
    /\ token_expires = 0
    /\ line = NoCall
    /\ api = NoCall
    /\ app_settings = NoSettings
    /\ environ \in Environments

\* PUT /settings with one key: set_settings stores the text under the key.
UpdateSettings(k, text) ==
    /\ app_settings' = [j \in DOMAIN app_settings \cup {k} |->
                           IF j = k THEN text ELSE app_settings[j]]
    /\ lastCall' = [op |-> "update_settings", raised |-> FALSE, result |-> text, key |-> k,
                    read |-> TRUE, client |-> NoClient]
    /\ UNCHANGED <<devices, now, supplied, pass, storeVars, tokenVars, clientVars, environ>>

\* config.get_setting(key)
GetSettingCall(k, readable) ==
    /\ lastCall' = [op |-> "get_setting", raised |-> FALSE,
                    result |-> get_setting(StoredSettings(app_settings, readable), environ, k, <<>>),
                    key |-> k, read |-> readable, client |-> NoClient]
    /\ UNCHANGED <<devices, now, supplied, pass, storeVars, tokenVars, clientVars, configVars>>

\* A request that builds its line-protocol client and sends a switch command:
\* POST /switch and POST /unassign (routes/switching.py), and the restore of a
\* snapshot and the device routes (sync.py, routes/devices.py).
SwitchingRoutes == {"switch_source", "unassign_receiver"}
SettingsRoutes == {"restore_config_snapshot", "device_route"}
ClientCall(route, readable) ==
    /\ IF route \in SwitchingRoutes
       THEN lastCall' = [op |-> route, raised |-> FALSE, result |-> <<>>, key |-> "",
                         read |-> readable, client |-> SwitchingClient]
       ELSE IF SettingsRaise(StoredSettings(app_settings, readable), environ)
       THEN lastCall' = [op |-> route, raised |-> TRUE, result |-> <<>>, key |-> "",
                         read |-> readable, client |-> NoClient]
       ELSE lastCall' = [op |-> route, raised |-> FALSE, result |-> <<>>, key |-> "",
                         read |-> readable,
                         client |-> SettingsClient(StoredSettings(app_settings, readable), environ)]
    /\ UNCHANGED <<devices, now, supplied, pass, storeVars, tokenVars, clientVars, configVars>>

NextSettings ==
    \/ \E k \in SettingKeys, text \in SettingTexts : UpdateSettings(k, text)
    \/ \E k \in SettingKeys, readable \in BOOLEAN : GetSettingCall(k, readable)
    \/ \E route \in SwitchingRoutes \cup SettingsRoutes, readable \in BOOLEAN :
          ClientCall(route, readable)

SpecSettings == InitSettings /\ [][NextSettings]_vars

\* The value the precedence of the claim gives a key.
ByPrecedence(k) ==
    IF k \in DOMAIN app_settings THEN app_settings[k]
    ELSE IF EnvName(k) # "" /\ EnvName(k) \in DOMAIN environ THEN environ[EnvName(k)]
    ELSE DefaultOf(k)

\* C22: get_setting(key) gives the persisted value when the key is persisted,
\* else the value of the mapped environment variable when it is set, else the
\* built-in default; a persisted value is never overridden, the empty string
\* included.  (Stated of calls whose read of the table succeeded.)
C22_PersistedElseEnvElseDefault ==
    lastCall.op = "get_setting" /\ lastCall.read => lastCall.result = ByPrecedence(lastCall.key)

\* C30: every line-protocol client that sends switch commands targets the same
\* controller address and port: after controller_ip or telnet_port has been
\* changed, the switch and unassign routes address the controller resolved from
\* the current settings, as restore_config_snapshot and the device routes do.
C30_SwitchRoutesUseCurrentSettings ==
    lastCall.op \in SwitchingRoutes /\ ~SettingsRaise(app_settings, environ) =>
        lastCall.client = SettingsClient(app_settings, environ)

--------------------------------------------------------------------------
(* app/database.py: get_device after passes in which a slot changes hands *)

\* Group records of one kind: group 1 at index 1, group 2 at index 1, and group
\* 2 at index 2.
GroupAtSlot1 == [Group2 EXCEPT !.index = 1]
SlotGroups == {Group1, GroupAtSlot1, Group2}

\* get_device(device_type, device_index) after a pass has returned true:
\* fetchone() of a SELECT without ORDER BY gives one of the rows of the slot,
\* row being its position, or None when the slot has no row.
GetDeviceCall(dtype, idx, row) ==
    /\ pass.pc = "idle"
    /\ lastCall.op = "sync"
    /\ lastCall.ret
    /\ IF get_device(devices, dtype, idx) = {}
       THEN /\ row = 0
            /\ lastCall' = [op |-> "get_device", device_type |-> dtype, device_index |-> idx,
                            group_id |-> NULL, expected |-> lastCall.expected, is_row |-> FALSE]
       ELSE /\ row \in get_device(devices, dtype, idx)
            /\ lastCall' = [op |-> "get_device", device_type |-> dtype, device_index |-> idx,
                            group_id |-> devices[row].group_id,
                            expected |-> lastCall.expected, is_row |-> TRUE]
    /\ UNCHANGED <<devices, now, supplied, pass, storeVars, tokenVars, clientVars, configVars>>

NextSlot ==
    \/ \E units \in UnitLists : SyncBegin(TRUE, units)
    \/ \E group \in SlotGroups : SyncGroup(group)
    \/ SyncLoopEnd
    \/ \E dtype \in DeviceTypes, idx \in Indexes, row \in 0..(2 * MaxGroups) :
          GetDeviceCall(dtype, idx, row)

SpecSlot == InitInventory /\ [][NextSlot]_vars

\* The groups the last pass listed at a slot.
OccupantsOf(listed, dtype, idx) == {e[3] : e \in {x \in listed : x[1] = dtype /\ x[2] = idx}}

\* C23: get_device(device_type, device_index) is a current-slot lookup: when the
\* group at a slot has changed between passes (A at index i, later B at index i
\* and A no longer listed), it returns the record of the group that occupies the
\* slot now, not one left by an earlier occupant.
C23_CurrentSlotLookup ==
    lastCall.op = "get_device" /\ lastCall.is_row =>
        \A g \in OccupantsOf(lastCall.expected, lastCall.device_type, lastCall.device_index) :
            Cardinality(OccupantsOf(lastCall.expected, lastCall.device_type,
                                    lastCall.device_index)) = 1
                => lastCall.group_id = g

--------------------------------------------------------------------------
(* moip/api_client.py: _get_video_tx_id / _get_video_rx_id as a function of *)
(* the fetched groups                                                        *)

MaxFetched == 3            \* the most group records a detailed list holds

\* The detailed records of fetched groups: any settings.index (NULL when the key
\* is absent) and any video association (NULL for none).
FetchedGroup(item, idx, video_id) == [id |-> item, kind |-> "group", index |-> idx, video |-> video_id]

RECURSIVE FetchedLists(_)
FetchedLists(n) ==
    IF n = 0 THEN {<<>>}
    ELSE FetchedLists(n - 1) \cup
         {Append(groups, FetchedGroup(n, idx, video_id)) :
             groups \in {g \in FetchedLists(n - 1) : Len(g) = n - 1},
             idx \in ItemIds \cup {NULL},
             video_id \in {NULL} \cup {VideoIdOf(i) : i \in ItemIds}}

\* get_all_group_tx_detailed / get_all_group_rx_detailed has returned the
\* groups to _get_video_tx_id / _get_video_rx_id.
InitResolve ==
    /\ devices = <<>>
    /\ now = 0
    /\ supplied = [g \in GroupIds |-> AllNull]
    /\ lastCall = NoCall
    /\ pass = NoPass
    /\ snapshots = {}
    /\ snapSeq = 0
    /\ ctl = InitCtl
    /\ token = NULL
    /\ token_expires = 0
    /\ line = NoCall
    /\ \E groups \in FetchedLists(MaxFetched), wanted \in ItemIds :
          api = [op |-> "get_video_id", pc |-> "scan", index |-> wanted, value |-> NULL,
                 listing |-> groups]
    /\ app_settings = NoSettings
    /\ environ = NoSettings

\* The loop over the groups returns.
ResolveReturn ==
    /\ api.pc = "scan"
    /\ api' = [api EXCEPT !.pc = "done", !.value = ResolveVideoId(api.listing, api.index)]
    /\ UNCHANGED <<devices, now, supplied, lastCall, pass, storeVars, tokenVars, line, configVars>>

SpecResolve == InitResolve /\ [][ResolveReturn]_vars

\* The video resources of the fetched groups that have the index.
VideoIdsAt(groups, wanted) ==
    {groups[k].video : k \in {j \in DOMAIN groups : groups[j].index = wanted /\ groups[j].video # NULL}}

\* C24: _get_video_tx_id / _get_video_rx_id return the video resource of a group
\* with the requested index whenever a fetched group with that index has a
\* video resource, and not-found only when none has -- also when several groups
\* share the index and only some of them have a video resource.
C24_ResolvesWheneverResolvable ==
    api.pc = "done" =>
        IF VideoIdsAt(api.listing, api.index) = {}
        THEN api.value = NULL
        ELSE api.value \in VideoIdsAt(api.listing, api.index)

--------------------------------------------------------------------------
(* app/routes/storage.py: the create-snapshot route *)

\* POST /snapshots: sync.sync_devices() has returned (the steps of the pass
\* above), its result is dropped, and sync.create_config_snapshot(name,
\* description) runs; when that raises the route answers 500.
CreateSnapshotRoute(snap_name, descr, reachable, answer) ==
    /\ pass.pc = "idle"
    /\ lastCall.op = "sync"
    /\ IF ~reachable
       THEN /\ lastCall' = [op |-> "create_snapshot", id |-> NULL, ret |-> lastCall.ret,
                            raised |-> TRUE]
            /\ UNCHANGED <<snapshots, snapSeq>>
       ELSE \E rows \in get_all_devices(devices) :
               LET data == [timestamp |-> now, controller_ip |-> ControllerHost,
                            routing |-> answer, device_rows |-> rows]
               IN  /\ snapshots' = save_snapshot(snapshots, snapSeq, snap_name, data, descr, now)
                   /\ snapSeq' = snapSeq + 1
                   /\ lastCall' = [op |-> "create_snapshot", id |-> snapSeq + 1,
                                   ret |-> lastCall.ret, raised |-> FALSE]
    /\ UNCHANGED <<devices, now, supplied, pass, ctl, tokenVars, clientVars, configVars>>

\* Requests to the route, one after the other.
NextCapture ==
    \/ /\ lastCall.op # "sync"
       /\ snapSeq + 1 \in SnapshotIds
       /\ \E reads_ok \in BOOLEAN, units \in UnitLists : SyncBegin(reads_ok, units)
    \/ \E group \in StoreGroupRecs : SyncGroup(group)
    \/ SyncLoopEnd
    \/ \E snap_name \in SnapshotNames, reachable \in BOOLEAN, answer \in StoreAnswers :
          CreateSnapshotRoute(snap_name, NULL, reachable, answer)

SpecCapture == InitInventory /\ [][NextCapture]_vars

\* C25: every snapshot created through the create-snapshot route captures a
\* device list that reflects a reconciliation completed successfully in the same
\* request: the route runs sync_devices before create_config_snapshot, and no
\* snapshot is stored from an inventory whose pass failed.
C25_SnapshotOnlyAfterSuccessfulSync ==
    lastCall.op = "create_snapshot" /\ ~lastCall.raised =>
        /\ lastCall.ret
        /\ \E r \in snapshots : r.id = lastCall.id

--------------------------------------------------------------------------
(* app/database.py: get_device_icons; the icon routes on a slot without a record *)

\* get_device_icons(): per slot with a row that has an icon, the icon of such a
\* row.  The key "{device_type}_{device_index}" is the pair; when a slot has
\* several rows with an icon the dict keeps the one the unordered SELECT yields
\* last, so the value is the set of the candidates.
get_device_icons(devs) ==
    [slot \in {<<devs[i].device_type, devs[i].device_index>> :
                 i \in {j \in 1..Len(devs) : devs[j].icon_type # NULL}} |->
        {devs[i].icon_type : i \in {j \in get_device(devs, slot[1], slot[2]) :
                                       devs[j].icon_type # NULL}}]

\* C26: setting an icon for a transmitter or receiver slot that has no inventory
\* record creates a basic record for the slot carrying the icon and reports
\* success; afterwards get_device_icons has the icon under the slot's key.
C26_IconCreatesBasicRecord ==
    lastCall.op = "set_icon" /\ ~lastCall.had_row =>
        /\ ~lastCall.raised
        /\ get_device(devices, lastCall.device_type, lastCall.device_index) # {}
        /\ <<lastCall.device_type, lastCall.device_index>> \in DOMAIN get_device_icons(devices)
        /\ get_device_icons(devices)[<<lastCall.device_type, lastCall.device_index>>]
              = {lastCall.icon_type}

--------------------------------------------------------------------------
(* app/routes/devices.py: set_receiver_name / set_transmitter_name *)

\* The groups the controller lists while names are set: group 1 (no type, with
\* a unit) and group 2 (type audio, no unit).
RenameGroups == {Group1, Group2}
NewNames == {2}

\* PUT /receivers/{rx_id}/name and PUT /transmitters/{tx_id}/name for the index
\* of a group the controller lists: the name is set on the controller (a raise
\* there answers 500 before anything is stored), then the record is upserted
\* with the name, the group id and the unit id -- and with no subtype, so with
\* upsert_device's default.
\* (RenameKeepsSubtype is the call that passes the stored subtype.)
RenameKeepsSubtype(devs, gid) ==
    IF RowsOf(devs, gid) = {} THEN "av" ELSE (CHOOSE r \in RowsOf(devs, gid) : TRUE).subtype
RenameSubtype(devs, gid) == "av"

SetNameCall(dtype, group, new_name, outcome) ==
    /\ pass.pc = "idle"
    /\ lastCall.op # "set_name"
    /\ LET sent == set_group_name(ctl.names, dtype, group.id, new_name, outcome)
           a == UpsertArgs(dtype, group.index, group.id, RenameSubtype(devices, group.id),
                           [AllNull EXCEPT !.name = new_name, !.unit_id = group.unit])
       IN  /\ ctl' = [ctl EXCEPT !.names = sent.table]
           /\ devices' = IF sent.raises THEN devices ELSE UpsertDevice(devices, a, now)
           /\ lastCall' = [op |-> "set_name", device_type |-> dtype, group_id |-> group.id,
                           raised |-> sent.raises, rows_before |-> RowsOf(devices, group.id)]
    /\ UNCHANGED <<now, supplied, pass, snapshots, snapSeq, tokenVars, clientVars, configVars>>

NextRename ==
    \/ /\ lastCall.op # "sync"
       /\ \E units \in UnitLists : SyncBegin(TRUE, units)
    \/ \E group \in RenameGroups : SyncGroup(group)
    \/ SyncLoopEnd
    \/ \E dtype \in DeviceTypes, group \in RenameGroups, new_name \in NewNames,
          outcome \in NameOutcomes :
          SetNameCall(dtype, group, new_name, outcome)

SpecRename == InitInventory /\ [][NextRename]_vars

\* The columns a rename may not change.
KeptOnRename == DeviceColumns \ {"name", "unit_id", "last_seen", "updated_at"}

\* C27: renaming a device through set_receiver_name or set_transmitter_name
\* leaves the stored subtype of its record unchanged: a record that the last
\* pass classified as audio or videowall keeps that subtype, and only name,
\* unit_id and the timestamps may change.
C27_RenameKeepsSubtype ==
    lastCall.op = "set_name" /\ pass.pc = "idle" /\ ~lastCall.raised =>
        \A old \in lastCall.rows_before :
            old.device_type = lastCall.device_type =>
                \E r \in RowsOf(devices, lastCall.group_id) :
                    \A c \in KeptOnRename : r[c] = old[c]

--------------------------------------------------------------------------
(* moip/api_client.py: one _request of a client whose token may be stale *)

\* The resources requested: a collection, a group, a video resource.
SessionResources == {<<"unit", NULL>>, <<"group_rx", 1>>, <<"video_rx", VideoIdOf(1)>>}

\* A client that has no token, a token past its refresh margin, or a fresh one.
InitSession ==
    /\ devices = <<>>
    /\ now = 0
    /\ supplied = [g \in GroupIds |-> AllNull]
    /\ lastCall = NoCall
    /\ pass = NoPass
    /\ snapshots = {}
    /\ snapSeq = 0
    /\ ctl = InitCtl
    /\ \E cache \in TokenCaches : token = cache[1] /\ token_expires = cache[2]
    /\ line = NoCall
    /\ api = NoCall
    /\ app_settings = NoSettings
    /\ environ = NoSettings

\* _request(method, endpoint) by a caller.
RequestCall(method, r, server, listed) ==
    /\ api = NoCall
    /\ LET done == Request(ApiStart(token, token_expires), now, method, r, server, listed)
       IN /\ api' = [op |-> "_request", raised |-> done.raises, value |-> done.value,
                     token_before |-> token, expires_before |-> token_expires,
                     sent |-> done.sent, peer |-> server]
          /\ token' = done.cached
          /\ token_expires' = done.expiry
    /\ UNCHANGED <<devices, now, supplied, lastCall, pass, storeVars, line, configVars>>

NextSession ==
    \E method \in {"GET", "PUT"}, r \in SessionResources, server \in Servers, listed \in {<<1, 2>>} :
        RequestCall(method, r, server, listed)

SpecSession == InitSession /\ [][NextSession]_vars

\* The call had to log in and the login was refused.
LoginFailed ==
    /\ api.op = "_request"
    /\ ~TokenFresh(api.token_before, api.expires_before, now)
    /\ ~api.peer.accepts

\* C28: a failed login leaves the session unchanged: _token and _token_expires
\* keep their previous values, the error propagates to the caller of _request,
\* and no resource request is sent, neither with the old token nor with none.
C28_FailedLoginLeavesSession ==
    LoginFailed =>
        /\ token = api.token_before
        /\ token_expires = api.expires_before
        /\ api.raised
        /\ \A k \in DOMAIN api.sent : api.sent[k].resource = LoginResource

\* A client with a token past its margin whose login is refused.
C28_Witness ==
    /\ LoginFailed
    /\ Truthy(api.token_before)
    /\ token = api.token_before
    /\ api.raised
    /\ Len(api.sent) = 1

--------------------------------------------------------------------------
(* app/sync.py: sync_devices, its controller reads one at a time *)

\* The statements of sync_devices that talk to the controller or write the
\* inventory, in the order of the code: get_device_counts, the three detailed
\* lists, then the transmitter loop and the receiver loop.
\* (SyncPhasesLazy is the variant that fetches the receiver groups after the
\* transmitter loop.)
ControllerReads == {"counts", "units", "group_tx", "group_rx"}
SyncPhasesLazy == <<"counts", "units", "group_tx", "tx", "group_rx", "rx">>
SyncPhases == <<"counts", "units", "group_tx", "group_rx", "tx", "rx">>

\* What the caller of a finished pass holds, with the inventory the pass found.
PassDone(res, info) ==
    [op |-> "sync", ret |-> res.ret, raised |-> res.raised, reached |-> info.reached,
     rows_before |-> info.rows_before, ended_in |-> info.pc]

\* sync_devices() is called: the settings are read and the clients are built.
PassBegin(units) ==
    /\ pass.pc = "idle"
    /\ pass' = [pc |-> SyncPhases[1], since |-> now, was_empty |-> (devices = <<>>),
                expected |-> {}, reached |-> {}, before |-> Len(devices),
                unit_list |-> units, count |-> 0, rows_before |-> devices, phase |-> 1]
    /\ UNCHANGED <<devices, now, supplied, lastCall, storeVars, tokenVars, clientVars, configVars>>

\* One read of the controller returns or raises; a raise is caught by the
\* except clause, which returns False.
PassRead(read_ok) ==
    /\ pass.pc \in ControllerReads
    /\ IF read_ok
       THEN /\ pass' = [pass EXCEPT !.pc = SyncPhases[pass.phase + 1], !.phase = @ + 1]
            /\ UNCHANGED lastCall
       ELSE /\ pass' = NoPass
            /\ lastCall' = PassDone(SyncFailure, pass)
    /\ UNCHANGED <<devices, now, supplied, storeVars, tokenVars, clientVars, configVars>>

\* The end of a loop: the next statement, or the return of True after the last.
PassLoopEnd ==
    /\ pass.pc \in {"tx", "rx"}
    /\ IF pass.phase < Len(SyncPhases)
       THEN /\ pass' = [pass EXCEPT !.pc = SyncPhases[pass.phase + 1], !.count = 0,
                                    !.phase = @ + 1]
            /\ UNCHANGED lastCall
       ELSE /\ pass' = NoPass
            /\ lastCall' = PassDone(SyncSuccess, pass)
    /\ UNCHANGED <<devices, now, supplied, storeVars, tokenVars, clientVars, configVars>>

NextReads ==
    \/ \E units \in UnitLists : PassBegin(units)
    \/ \E read_ok \in BOOLEAN : PassRead(read_ok)
    \/ \E group \in RenameGroups : SyncGroup(group)
    \/ PassLoopEnd

SpecReads == InitInventory /\ [][NextReads]_vars

\* C29: sync_devices completes every controller read (device counts, units,
\* transmitter groups, receiver groups) before its first inventory write, so a
\* pass that fails during any of these reads returns false with the inventory
\* exactly as it was before the pass.
C29_FailedReadLeavesInventory ==
    (pass.pc = "idle" /\ lastCall.op = "sync" /\ lastCall.ended_in \in ControllerReads) =>
        /\ ~lastCall.ret
        /\ ~lastCall.raised
        /\ lastCall.reached = {}
        /\ devices = lastCall.rows_before

\* A pass over a stored inventory has failed in its last read.
C29_Witness ==
    /\ pass.pc = "idle"
    /\ lastCall.op = "sync"
    /\ lastCall.ended_in = "group_rx"
    /\ ~lastCall.ret
    /\ lastCall.rows_before # <<>>
    /\ devices = lastCall.rows_before

==========================================================================
